---- MODULE Spec2Model ----
(***************************************************************************)
(* State-machine model of the credential manager (MultiTokenManager) of    *)
(* src/src/kiro/token_manager.rs: scheduling, sticky sessions, failure     *)
(* accounting, self-healing and the double-checked token refresh.          *)
(*                                                                         *)
(* Time is counted in minutes.  A call of acquire_context_internal is      *)
(* split where the code can be interleaved with other threads: the reads   *)
(* before the loop (Start), the section under the entries lock together    *)
(* with the lock-free first expiry check (Select), the section that runs   *)
(* once the per-credential refresh lock is held (AcquireLock), the arrival *)
(* of the refresh response (RefreshOk, RefreshTransient,                    *)
(* RefreshUnauthorized) and the session_map insert followed by the return  *)
(* (Bind).                                                                 *)
(***************************************************************************)
EXTENDS Integers, Sequences, FiniteSets, TLC

VARIABLES
    entries,              \* Mutex<Vec<CredentialEntry>>
    current_id,           \* Mutex<u64>
    session_map,          \* Cache<String, u64>: session -> credential id, NoId = absent
    round_robin_counter,  \* AtomicU64
    scheduling_mode,      \* Mutex<SchedulingMode>
    refresh_locks,        \* per-credential refresh mutex: id -> holding call, 0 = free
    now,                  \* Utc::now(), in minutes
    issued,               \* number of access tokens the OAuth endpoint has issued
    calls,                \* the calls of acquire_context_internal in progress
    credentials_file,     \* credentials.json: the list of credentials
    pool_manager,         \* AppState::pool_manager is Some
    pools,                \* PoolManager::pools: RwLock<HashMap<String, Arc<PoolRuntime>>>
    pools_file,           \* pools.json
    pool_result,          \* what the last PoolManager operation returned
    response,             \* the answer to the last request for /v1/messages
    adding,               \* the calls of add_credential in progress
    csrf_tokens,          \* CsrfManager::tokens: token -> expiry, NoExpiry = absent
    operation_count,      \* CsrfManager::operation_count
    generated,            \* number of CSRF tokens generated
    validations,          \* the calls of csrf_middleware in progress
    global_minute_requests,  \* RateLimiter: minute -> requests
    global_hour_requests,    \* RateLimiter: hour -> requests
    key_minute_requests,     \* RateLimiter: API key -> minute -> requests
    key_hour_requests,       \* RateLimiter: API key -> hour -> requests
    rate_requests,           \* the calls of rate_limit_middleware in progress
    stream,                  \* the SSE response: "None", "Open", "Done"
    use_buffered_stream,     \* handle_messages_request: use_buffered_stream
    finished,                \* the flag of the unfold of the stream
    stream_ctx,              \* StreamContext or BufferedStreamContext
    body_stream,             \* response.bytes_stream(): what it has yielded
    client,                  \* the SSE events sent to the client
    body_bytes,              \* the events of the upstream body of a non-streaming request
    response_body,           \* build_non_stream_response: the response built
    health,                  \* GET /health: the last HealthResponse and its status code
    keys,                    \* ApiKeyManager::keys: RwLock<Vec<ApiKey>>
    next_id,                 \* ApiKeyManager::next_id
    api_keys_file,           \* api_keys.json
    creating,                \* the calls of ApiKeyManager::create in progress
    api_key_result,          \* what the last ApiKeyManager operation returned
    authenticated,           \* auth_middleware: the answer to the last request
    pool_token_managers,     \* PoolRuntime::token_manager of each pool: the credentials of its entries
    pool_credentials_file,   \* PoolManager::credentials_path: the file all pools' managers write
    pool_runtime,            \* failure_count, disabled, disabled_reason of the entries of each pool's manager
    pool_session_map,        \* session_map of each pool's manager: pairs of session and credential id
    handler,                 \* handle_stream_request, handle_non_stream_request: the request in progress
    lock_holder,             \* the task that holds each lock of MultiTokenManager, or 0
    task,                    \* what each task runs and where it is in it
    file_writable,           \* whether std::fs::write on the credentials file succeeds
    hist                  \* history variables read by the properties only

\* The credential manager
manager_vars == <<entries, current_id, session_map, round_robin_counter,
                  scheduling_mode, refresh_locks, now, issued, calls,
                  credentials_file>>

\* The pool manager and the request routing
pool_vars == <<pool_manager, pools, pools_file, pool_result, response>>

\* The CSRF tokens of the admin API
csrf_vars == <<csrf_tokens, operation_count, generated, validations>>

\* The rate limiter
rate_vars == <<global_minute_requests, global_hour_requests,
               key_minute_requests, key_hour_requests, rate_requests>>

\* The SSE relay
relay_vars == <<stream, use_buffered_stream, finished, stream_ctx, body_stream, client>>

\* The non-streaming response
non_stream_vars == <<body_bytes, response_body>>

\* The health endpoint
health_vars == <<health>>

\* The API keys
api_key_vars == <<keys, next_id, api_keys_file, creating, api_key_result, authenticated>>

\* The credentials file of the pools
shared_vars == <<pool_token_managers, pool_credentials_file, pool_runtime, pool_session_map>>

\* The relay's retries
handler_vars == <<handler>>

\* The locks of the credential manager
lock_vars == <<lock_holder, task>>

\* The disk
disk_vars == <<file_writable>>

\* What the operations of the credential manager modelled as one step
\* leave alone
gateway_vars == <<pool_vars, adding, csrf_vars, rate_vars, relay_vars, non_stream_vars, health_vars, api_key_vars, shared_vars, handler_vars, lock_vars, disk_vars>>

\* What add_credential step by step leaves alone
beside_adds == <<pool_vars, csrf_vars, rate_vars, relay_vars, non_stream_vars, health_vars, api_key_vars, shared_vars, handler_vars, lock_vars, disk_vars>>

\* What the pool manager and the routing leave alone
beside_pools == <<manager_vars, adding, csrf_vars, rate_vars, relay_vars, non_stream_vars, health_vars, api_key_vars, shared_vars, handler_vars, lock_vars, disk_vars>>

\* The credential manager but for the clock
timeless_vars == <<entries, current_id, session_map, round_robin_counter,
                   scheduling_mode, refresh_locks, issued, calls, credentials_file>>

\* What the CSRF protection leaves alone (but for the clock)
beside_csrf == <<timeless_vars, pool_vars, adding, rate_vars, relay_vars, non_stream_vars, health_vars, api_key_vars, shared_vars, handler_vars, lock_vars, disk_vars>>

\* What the rate limiter leaves alone (but for the clock)
beside_rate == <<timeless_vars, pool_vars, adding, csrf_vars, relay_vars, non_stream_vars, health_vars, api_key_vars, shared_vars, handler_vars, lock_vars, disk_vars>>

\* What the SSE relay leaves alone (but for the clock)
beside_relay == <<timeless_vars, pool_vars, adding, csrf_vars, rate_vars, non_stream_vars, health_vars, api_key_vars, shared_vars, handler_vars, lock_vars, disk_vars>>

\* What the non-streaming response leaves alone (but for the clock)
beside_non_stream == <<timeless_vars, pool_vars, adding, csrf_vars, rate_vars, relay_vars, health_vars, api_key_vars, shared_vars, handler_vars, lock_vars, disk_vars>>

\* What the health endpoint leaves alone (but for the clock)
beside_health == <<timeless_vars, pool_vars, adding, csrf_vars, rate_vars, relay_vars, non_stream_vars, api_key_vars, shared_vars, handler_vars, lock_vars, disk_vars>>

\* What the API keys leaves alone (but for the clock)
beside_api_key == <<timeless_vars, pool_vars, adding, csrf_vars, rate_vars, relay_vars, non_stream_vars, health_vars, shared_vars, handler_vars, lock_vars, disk_vars>>

\* What the credentials file of the pools leaves alone (but for the clock)
beside_shared == <<timeless_vars, pool_vars, adding, csrf_vars, rate_vars, relay_vars, non_stream_vars, health_vars, api_key_vars, handler_vars, lock_vars, disk_vars>>

\* What the relay's retries leaves alone (but for the clock)
beside_handler == <<timeless_vars, pool_vars, adding, csrf_vars, rate_vars, relay_vars, non_stream_vars, health_vars, api_key_vars, shared_vars, lock_vars, disk_vars>>

\* What the locks of the credential manager leaves alone (but for the clock)
beside_lock == <<timeless_vars, pool_vars, adding, csrf_vars, rate_vars, relay_vars, non_stream_vars, health_vars, api_key_vars, shared_vars, handler_vars, disk_vars>>

\* What the disk leaves alone (but for the clock)
beside_disk == <<timeless_vars, pool_vars, adding, csrf_vars, rate_vars, relay_vars, non_stream_vars, health_vars, api_key_vars, shared_vars, handler_vars, lock_vars>>

vars == <<entries, current_id, session_map, round_robin_counter,
          scheduling_mode, refresh_locks, now, issued, calls, credentials_file,
          pool_manager, pools, pools_file, pool_result, response, adding,
          csrf_tokens, operation_count, generated, validations,
          global_minute_requests, global_hour_requests, key_minute_requests,
          key_hour_requests, rate_requests,
          stream, use_buffered_stream, finished, stream_ctx, body_stream, client,
          body_bytes, response_body,
          health,
          keys, next_id, api_keys_file, creating, api_key_result, authenticated,
          pool_token_managers, pool_credentials_file, pool_runtime, pool_session_map,
          handler,
          lock_holder, task,
          file_writable,
          hist>>

----------------------------------------------------------------------------
(* Bounds of the model *)

MaxId == 3            \* credential ids are 1..MaxId
NumCalls == 2         \* concurrent calls of acquire_context
NumSessions == 4      \* distinct session ids
MaxPriority == 1      \* priorities are 0..MaxPriority
MaxFailureCount == 4  \* failure_count is not counted beyond this
MaxCounter == 4       \* round_robin_counter is not counted beyond this
MaxTicks == 2         \* the clock advances at most this many times
MaxIssued == 2        \* the OAuth endpoint issues at most this many tokens per run
StreakCap == 4        \* consecutive failures are not counted beyond this

(* Program constants *)

MAX_FAILURES_PER_CREDENTIAL == 3
ExpiredMinutes == 5
ExpiringSoonMinutes == 10
NoId == 0             \* Option<u64>::None, and current_id of an empty manager
NoSession == 0        \* session_id = None
NoToken == 0          \* access_token = None
NoExpiry == -1        \* expires_at = None (or not RFC 3339)

Ids == 1..MaxId
Calls == 1..NumCalls
Sessions == 1..NumSessions
Priorities == 0..MaxPriority
Modes == {"RoundRobin", "PriorityFill"}
NoReason == "None"

----------------------------------------------------------------------------
(* Token expiry *)

is_token_expiring_within(credentials, minutes) ==
    [some  |-> credentials.expires_at # NoExpiry,
     value |-> credentials.expires_at # NoExpiry
               /\ credentials.expires_at <= now + minutes]

is_token_expired(credentials) ==
    LET r == is_token_expiring_within(credentials, ExpiredMinutes)
    IN  IF r.some THEN r.value ELSE TRUE

is_token_expiring_soon(credentials) ==
    LET r == is_token_expiring_within(credentials, ExpiringSoonMinutes)
    IN  IF r.some THEN r.value ELSE FALSE

needs_refresh(credentials) ==
    is_token_expired(credentials) \/ is_token_expiring_soon(credentials)

----------------------------------------------------------------------------
(* Entries *)

Credentials(p, tok, exp) == [priority |-> p, access_token |-> tok, expires_at |-> exp]

CredentialEntry(i, cred) ==
    [id |-> i, credentials |-> cred, failure_count |-> 0,
     disabled |-> FALSE, disabled_reason |-> NoReason]

EntryIds(es) == {es[i].id : i \in 1..Len(es)}
HasEntry(es, i) == i \in EntryIds(es)
IndexOf(es, i) == CHOOSE k \in 1..Len(es) : es[k].id = i
EntryOf(es, i) == es[IndexOf(es, i)]
NotDisabled(e) == ~e.disabled
Available(es) == SelectSeq(es, NotDisabled)
MaxOf(S) == IF S = {} THEN 0 ELSE CHOOSE x \in S : \A y \in S : y <= x

\* Mutant: a later element replaces the running minimum also when its key
\* is equal, so that the last of the minimal elements is returned.
RECURSIVE MinByKeyLastFrom(_, _, _)
MinByKeyLastFrom(s, k, best) ==
    IF k > Len(s) THEN best
    ELSE MinByKeyLastFrom(s, k + 1,
            IF s[k].credentials.priority <= best.credentials.priority THEN s[k] ELSE best)

min_by_key_last(s) == MinByKeyLastFrom(s, 2, s[1])

\* Iterator::min_by_key(|e| e.credentials.priority): a later element replaces
\* the running minimum only when its key is strictly smaller.
RECURSIVE MinByKeyFrom(_, _, _)
MinByKeyFrom(s, k, best) ==
    IF k > Len(s) THEN best
    ELSE MinByKeyFrom(s, k + 1,
            IF s[k].credentials.priority < best.credentials.priority THEN s[k] ELSE best)

min_by_key(s) == MinByKeyFrom(s, 2, s[1])

\* Vec::sort_by_key(|c| c.priority): a stable sort.
RECURSIVE InsertSorted(_, _)
InsertSorted(s, c) ==
    IF s = <<>> THEN <<c>>
    ELSE IF c.priority < s[Len(s)].priority
         THEN Append(InsertSorted(SubSeq(s, 1, Len(s) - 1), c), s[Len(s)])
         ELSE Append(s, c)

RECURSIVE into_sorted_credentials(_)
into_sorted_credentials(file) ==
    IF file = <<>> THEN <<>>
    ELSE InsertSorted(into_sorted_credentials(SubSeq(file, 1, Len(file) - 1)),
                      file[Len(file)])

\* MultiTokenManager::new: credentials without an id get max_existing_id + 1,
\* + 2, ... in list order.
RECURSIVE AssignIds(_, _)
AssignIds(creds, new_id) ==
    IF creds = <<>> THEN <<>>
    ELSE LET c == creds[1]
             i == IF c.id = NoId THEN new_id ELSE c.id
         IN  <<CredentialEntry(i, Credentials(c.priority, c.access_token, c.expires_at))>>
             \o AssignIds(Tail(creds), IF c.id = NoId THEN new_id + 1 ELSE new_id)

new_entries(creds) ==
    AssignIds(creds, MaxOf({creds[k].id : k \in 1..Len(creds)}) + 1)

\* A credential of the file: id (NoId = absent), priority, access token and
\* expiry (NoToken, NoExpiry = absent).
FileCredential(i, p, tok, exp) ==
    [id |-> i, priority |-> p, access_token |-> tok, expires_at |-> exp]

\* persist_credentials: the credentials of the entries, in the order of the
\* entries, each with its id; nothing of the runtime state of an entry.
persist_credentials(es) ==
    [k \in 1..Len(es) |->
        FileCredential(es[k].id, es[k].credentials.priority,
                       es[k].credentials.access_token, es[k].credentials.expires_at)]

\* credentials.json once MultiTokenManager::new has returned: written back
\* when an id has been assigned.
new_credentials_file(file) ==
    LET has_new_ids == \E k \in 1..Len(file) : file[k].id = NoId
    IN  IF has_new_ids THEN persist_credentials(new_entries(into_sorted_credentials(file)))
        ELSE file

new_current_id(es) == IF es = <<>> THEN NoId ELSE min_by_key(es).id

----------------------------------------------------------------------------
(* Selection *)

select_by_priority(es) ==
    IF Available(es) = <<>> THEN NoId ELSE min_by_key(Available(es)).id

\* Mutant: the counter is ignored, the first available credential is taken.
select_by_round_robin_first(es, counter) ==
    IF Available(es) = <<>> THEN NoId ELSE Available(es)[1].id

\* The id chosen for counter value `counter`; NoId (and no fetch_add) when
\* nothing is available.
select_by_round_robin(es, counter) ==
    LET available == Available(es)
    IN  IF available = <<>> THEN NoId
        ELSE available[(counter % Len(available)) + 1].id

AutoDisabled(e) ==
    e.disabled_reason \in {"TooManyFailures", "TokenRefreshFailed"}

\* Mutant: self-healing keeps the failure_count.
HealEntryCounted(e) ==
    IF AutoDisabled(e)
    THEN [e EXCEPT !.disabled = FALSE, !.disabled_reason = NoReason]
    ELSE e

HealEntry(e) ==
    IF AutoDisabled(e)
    THEN [e EXCEPT !.disabled = FALSE, !.disabled_reason = NoReason, !.failure_count = 0]
    ELSE e

\* Mutant: self-healing only when every entry is auto-disabled.
ShouldHealAll(es) ==
    /\ es # <<>>
    /\ \A k \in 1..Len(es) : es[k].disabled /\ AutoDisabled(es[k])

\* The condition under which select_any_available self-heals.
ShouldHeal(es) ==
    /\ Available(es) = <<>>
    /\ \E k \in 1..Len(es) : es[k].disabled /\ AutoDisabled(es[k])

\* Mutant: `best` is not computed again after the self-healing.
select_any_available_stale(es, cur) ==
    LET healed == IF ShouldHeal(es) THEN [k \in 1..Len(es) |-> HealEntry(es[k])] ELSE es
    IN  IF Available(es) = <<>>
        THEN [ok |-> FALSE, id |-> NoId, credentials |-> Credentials(0, NoToken, NoExpiry),
              entries |-> healed, current_id |-> cur]
        ELSE LET best == min_by_key(Available(es))
             IN  [ok |-> TRUE, id |-> best.id, credentials |-> best.credentials,
                  entries |-> healed, current_id |-> best.id]

\* select_any_available: [ok, id, credentials, entries, current_id]
select_any_available(es, cur) ==
    LET healed == IF ShouldHeal(es) THEN [k \in 1..Len(es) |-> HealEntry(es[k])] ELSE es
    IN  IF Available(healed) = <<>>
        THEN [ok |-> FALSE, id |-> NoId, credentials |-> Credentials(0, NoToken, NoExpiry),
              entries |-> healed, current_id |-> cur]
        ELSE LET best == min_by_key(Available(healed))
             IN  [ok |-> TRUE, id |-> best.id, credentials |-> best.credentials,
                  entries |-> healed, current_id |-> best.id]

\* Does this iteration of the loop choose by scheduling mode (rather than
\* by the cached id or by current_id)?
ChoosesByMode(c) ==
    ~(c.tried_count = 0 /\ (c.cached_id # NoId \/ c.session = NoSession))

SelectByMode(c, es, counter) ==
    IF c.mode = "RoundRobin" THEN select_by_round_robin(es, counter)
    ELSE select_by_priority(es)

\* Mutant: the cached binding of the session is not looked at.
TargetIdUncached(c, es, cur, counter) ==
    IF c.tried_count = 0 /\ c.session = NoSession THEN cur
    ELSE SelectByMode(c, es, counter)

\* target_id of acquire_context_internal
TargetId(c, es, cur, counter) ==
    IF c.tried_count = 0
    THEN IF c.cached_id # NoId THEN c.cached_id
         ELSE IF c.session # NoSession THEN SelectByMode(c, es, counter)
         ELSE cur
    ELSE SelectByMode(c, es, counter)

\* Does the iteration execute round_robin_counter.fetch_add(1)?
FetchesCounter(c, es) ==
    ChoosesByMode(c) /\ c.mode = "RoundRobin" /\ Available(es) # <<>>

\* Mutant: the target is taken also when it is disabled.
SelectCredentialDisabled(c, es, cur, counter) ==
    LET tid == TargetId(c, es, cur, counter)
    IN  IF tid # NoId /\ \E k \in 1..Len(es) : es[k].id = tid
        THEN LET e == es[CHOOSE k \in 1..Len(es) : es[k].id = tid]
             IN  [ok |-> TRUE, id |-> e.id, credentials |-> e.credentials,
                  entries |-> es, current_id |-> cur]
        ELSE select_any_available(es, cur)

\* The section of the loop under the entries lock:
\* [ok, id, credentials, entries, current_id]
SelectCredential(c, es, cur, counter) ==
    LET tid == TargetId(c, es, cur, counter)
    IN  IF tid # NoId /\ \E k \in 1..Len(es) : es[k].id = tid /\ ~es[k].disabled
        THEN LET e == es[CHOOSE k \in 1..Len(es) : es[k].id = tid /\ ~es[k].disabled]
             IN  [ok |-> TRUE, id |-> e.id, credentials |-> e.credentials,
                  entries |-> es, current_id |-> cur]
        ELSE select_any_available(es, cur)

----------------------------------------------------------------------------
(* Calls of acquire_context_internal *)

NoCredentials == Credentials(0, NoToken, NoExpiry)
NoCtx == [id |-> NoId, token |-> NoToken, expires_at |-> NoExpiry, at |-> 0]

IdleCall ==
    [pc |-> "idle", session |-> NoSession, total |-> 0, cached_id |-> NoId,
     mode |-> "RoundRobin", tried_count |-> 0, id |-> NoId,
     credentials |-> NoCredentials, ctx |-> NoCtx]

\* CallContext { id, credentials, token }
CallContext(i, cred) ==
    [id |-> i, token |-> cred.access_token, expires_at |-> cred.expires_at, at |-> 0]

\* bail!: the call returns Err
Bail(c) ==
    [IdleCall EXCEPT !.pc = "failed", !.session = c.session, !.tried_count = c.tried_count]

\* Mutant: tried_count is not incremented.
OnTokenErrorUncounted(c) ==
    [c EXCEPT !.pc = "select", !.id = NoId, !.credentials = NoCredentials]

\* Err arm of the match on try_ensure_token: tried_count += 1, then the
\* check at the head of the loop.
OnTokenError(c) ==
    IF c.tried_count + 1 >= c.total
    THEN [Bail(c) EXCEPT !.tried_count = c.tried_count + 1]
    ELSE [c EXCEPT !.pc = "select", !.tried_count = c.tried_count + 1,
                   !.id = NoId, !.credentials = NoCredentials]

\* Ok arm: the context is in hand, the session_map insert is next.
OnTokenOk(c, i, cred) ==
    IF cred.access_token = NoToken
    THEN OnTokenError(c)
    ELSE [c EXCEPT !.pc = "bind", !.id = i, !.credentials = NoCredentials,
                   !.ctx = CallContext(i, cred)]

\* First, lock-free check of try_ensure_token on the snapshot taken under
\* the entries lock.
FirstCheck(c, i, cred) ==
    IF needs_refresh(cred)
    THEN [c EXCEPT !.pc = "lock", !.id = i, !.credentials = cred]
    ELSE OnTokenOk(c, i, cred)

\* should_disable: the entry is marked TokenRefreshFailed
DisableForRefresh(es, i) ==
    [k \in 1..Len(es) |->
        IF es[k].id = i
        THEN [es[k] EXCEPT !.disabled = TRUE, !.disabled_reason = "TokenRefreshFailed"]
        ELSE es[k]]

\* entry.credentials = new_creds
StoreCredentials(es, i, cred) ==
    [k \in 1..Len(es) |-> IF es[k].id = i THEN [es[k] EXCEPT !.credentials = cred] ELSE es[k]]

Start(t, sid) ==
    /\ calls[t].pc \in {"idle", "done", "failed"}
    /\ calls' = [calls EXCEPT ![t] =
            LET c == [IdleCall EXCEPT !.session = sid, !.total = Len(entries),
                          !.cached_id = IF sid = NoSession THEN NoId ELSE session_map[sid],
                          !.mode = scheduling_mode]
            IN  IF c.total = 0 THEN Bail(c) ELSE [c EXCEPT !.pc = "select"]]
    /\ UNCHANGED <<gateway_vars, credentials_file, entries, current_id, session_map, round_robin_counter,
                   scheduling_mode, refresh_locks, now, issued>>

Select(t) ==
    LET c == calls[t]
        r == SelectCredential(c, entries, current_id, round_robin_counter)
        fetched == FetchesCounter(c, entries)
    IN  /\ c.pc = "select"
        /\ fetched => round_robin_counter < MaxCounter
        /\ entries' = r.entries
        /\ current_id' = r.current_id
        /\ round_robin_counter' =
              IF fetched THEN round_robin_counter + 1 ELSE round_robin_counter
        /\ calls' = [calls EXCEPT ![t] =
              IF r.ok THEN FirstCheck(c, r.id, r.credentials) ELSE Bail(c)]
        /\ UNCHANGED <<gateway_vars, credentials_file, session_map, scheduling_mode, refresh_locks, now, issued>>

\* Mutant: no second check, the snapshot taken before the wait is used.
SecondCheckSnapshot(c, es) ==
    IF ~HasEntry(es, c.id)
    THEN [call |-> OnTokenError(c), holds |-> FALSE]
    ELSE IF needs_refresh(c.credentials)
         THEN [call |-> [c EXCEPT !.pc = "refresh"], holds |-> TRUE]
         ELSE [call |-> OnTokenOk(c, c.id, c.credentials), holds |-> FALSE]

\* The refresh lock is granted: second check on the re-read entry.
\* [call, holds]: the call's next state, and whether it keeps the lock
\* across the refresh request.
SecondCheck(c, es) ==
    IF ~HasEntry(es, c.id)
    THEN [call |-> OnTokenError(c), holds |-> FALSE]
    ELSE LET current_creds == EntryOf(es, c.id).credentials
         IN  IF needs_refresh(current_creds)
             THEN [call |-> [c EXCEPT !.pc = "refresh", !.credentials = current_creds],
                   holds |-> TRUE]
             ELSE [call |-> OnTokenOk(c, c.id, current_creds), holds |-> FALSE]

LockFree(locks, i) == locks[i] = 0

AcquireLock(t) ==
    LET c == calls[t]
        r == SecondCheck(c, entries)
    IN  /\ c.pc = "lock"
        /\ LockFree(refresh_locks, c.id)
        /\ calls' = [calls EXCEPT ![t] = r.call]
        /\ refresh_locks' = IF r.holds THEN [refresh_locks EXCEPT ![c.id] = t]
                            ELSE refresh_locks
        /\ UNCHANGED <<gateway_vars, credentials_file, entries, current_id, session_map, round_robin_counter,
                       scheduling_mode, now, issued>>

\* refresh_token succeeded: the response carries a new access token and
\* possibly expires_in (minutes; NoExpiry = absent).
Refreshed(cred, token, expires_in) ==
    [cred EXCEPT !.access_token = token,
                 !.expires_at = IF expires_in = NoExpiry THEN @ ELSE now + expires_in]

\* Mutant: the refreshed credentials are stored without the expiry check.
AfterRefreshUnchecked(es, i, new_creds) ==
    [accept |-> TRUE, entries |-> StoreCredentials(es, i, new_creds)]

\* What try_ensure_token does with the refreshed credentials: [accept, entries]
AfterRefresh(es, i, new_creds) ==
    IF is_token_expired(new_creds)
    THEN [accept |-> FALSE, entries |-> es]
    ELSE [accept |-> TRUE, entries |-> StoreCredentials(es, i, new_creds)]

ExpiresIn == {NoExpiry, 5, 10, 15}

\* Mutant: a failed write of the file is not reported.
persist_credentials_result_silent == "Ok"

\* persist_credentials, what it returns: the error of std::fs::write
persist_credentials_result == IF file_writable THEN "Ok" ELSE "WriteFailed"

\* std::fs::write(path, json): the file after it
fs_write(json) == IF file_writable THEN json ELSE credentials_file

\* An operation that resets the counter after persist_credentials()? does
\* not get there when the write fails.
AfterPersist(counter) == IF file_writable THEN 0 ELSE counter

\* The access token of the n-th response of the OAuth endpoint; the tokens
\* of the credentials file are 1..MaxId.
NewToken(n) == MaxId + n + 1

RefreshOk(t, expires_in) ==
    LET c == calls[t]
        new_creds == Refreshed(c.credentials, NewToken(issued), expires_in)
        r == AfterRefresh(entries, c.id, new_creds)
    IN  /\ c.pc = "refresh"
        /\ issued < MaxIssued
        /\ issued' = issued + 1
        /\ entries' = r.entries
        /\ calls' = [calls EXCEPT ![t] =
              IF r.accept THEN OnTokenOk(c, c.id, new_creds) ELSE OnTokenError(c)]
        /\ refresh_locks' = [refresh_locks EXCEPT ![c.id] = 0]
        /\ credentials_file' = IF r.accept THEN fs_write(persist_credentials(entries'))
                               ELSE credentials_file
        /\ UNCHANGED <<gateway_vars, current_id, session_map, round_robin_counter,
                       scheduling_mode, now>>

\* 429, 5xx or a network error: the credential is not disabled.
RefreshTransient(t) ==
    LET c == calls[t]
    IN  /\ c.pc = "refresh"
        /\ calls' = [calls EXCEPT ![t] = OnTokenError(c)]
        /\ refresh_locks' = [refresh_locks EXCEPT ![c.id] = 0]
        /\ UNCHANGED <<gateway_vars, credentials_file, entries, current_id, session_map, round_robin_counter,
                       scheduling_mode, now, issued>>

\* 401, 403, invalid_grant, ...: should_disable
RefreshUnauthorized(t) ==
    LET c == calls[t]
    IN  /\ c.pc = "refresh"
        /\ entries' = DisableForRefresh(entries, c.id)
        /\ round_robin_counter' = 0
        /\ calls' = [calls EXCEPT ![t] = OnTokenError(c)]
        /\ refresh_locks' = [refresh_locks EXCEPT ![c.id] = 0]
        /\ UNCHANGED <<gateway_vars, credentials_file, current_id, session_map, scheduling_mode, now, issued>>

Bind(t) ==
    LET c == calls[t]
    IN  /\ c.pc = "bind"
        /\ session_map' = IF c.session = NoSession THEN session_map
                          ELSE [session_map EXCEPT ![c.session] = c.ctx.id]
        /\ calls' = [calls EXCEPT ![t] =
              [IdleCall EXCEPT !.pc = "done", !.session = c.session,
                               !.tried_count = c.tried_count, !.id = c.id,
                               !.ctx = [c.ctx EXCEPT !.at = now]]]
        /\ UNCHANGED <<gateway_vars, credentials_file, entries, current_id, round_robin_counter, scheduling_mode,
                       refresh_locks, now, issued>>

\* The clock.  The code between the last expiry check and the return does
\* not suspend, so the clock does not advance while a call is there.
Tick ==
    /\ now < 5 * MaxTicks
    /\ \A t \in Calls : calls[t].pc # "bind"
    /\ now' = now + 5
    /\ UNCHANGED <<gateway_vars, credentials_file, entries, current_id, session_map, round_robin_counter,
                   scheduling_mode, refresh_locks, issued, calls>>

\* TTL or capacity eviction of a session_map entry
Evict(sid) ==
    /\ session_map[sid] # NoId
    /\ session_map' = [session_map EXCEPT ![sid] = NoId]
    /\ UNCHANGED <<gateway_vars, credentials_file, entries, current_id, round_robin_counter, scheduling_mode,
                   refresh_locks, now, issued, calls>>

----------------------------------------------------------------------------
(* Failure reporting *)

\* The entry with id i replaced by e
UpdateEntry(es, i, e) ==
    [k \in 1..Len(es) |-> IF es[k].id = i THEN e ELSE es[k]]

\* "switch to the highest-priority available credential": current_id moves
\* only when something is available.
NextCurrent(es, cur) ==
    IF Available(es) = <<>> THEN cur ELSE min_by_key(Available(es)).id

SuccessEntry(e) == [e EXCEPT !.failure_count = 0]

\* Mutant: the threshold compared with > instead of >=.
FailureEntryLate(e) ==
    IF e.failure_count + 1 > MAX_FAILURES_PER_CREDENTIAL
    THEN [e EXCEPT !.failure_count = @ + 1, !.disabled = TRUE,
                   !.disabled_reason = "TooManyFailures"]
    ELSE [e EXCEPT !.failure_count = @ + 1]

FailureEntry(e) ==
    IF e.failure_count + 1 >= MAX_FAILURES_PER_CREDENTIAL
    THEN [e EXCEPT !.failure_count = @ + 1, !.disabled = TRUE,
                   !.disabled_reason = "TooManyFailures"]
    ELSE [e EXCEPT !.failure_count = @ + 1]

\* Mutant: a disabled credential is marked as out of quota too.
QuotaEntryAlways(e) ==
    [e EXCEPT !.disabled = TRUE, !.disabled_reason = "QuotaExceeded",
              !.failure_count = MAX_FAILURES_PER_CREDENTIAL]

QuotaEntry(e) ==
    IF e.disabled THEN e
    ELSE [e EXCEPT !.disabled = TRUE, !.disabled_reason = "QuotaExceeded",
                   !.failure_count = MAX_FAILURES_PER_CREDENTIAL]

report_success(i) ==
    /\ HasEntry(entries, i)
    /\ entries' = UpdateEntry(entries, i, SuccessEntry(EntryOf(entries, i)))
    /\ UNCHANGED <<gateway_vars, credentials_file, current_id, session_map, round_robin_counter, scheduling_mode,
                   refresh_locks, now, issued, calls>>

report_failure(i) ==
    /\ HasEntry(entries, i)
    /\ EntryOf(entries, i).failure_count < MaxFailureCount
    /\ LET reached == EntryOf(entries, i).failure_count + 1 >= MAX_FAILURES_PER_CREDENTIAL
       IN  /\ entries' = UpdateEntry(entries, i, FailureEntry(EntryOf(entries, i)))
           /\ current_id' = IF reached THEN NextCurrent(entries', current_id) ELSE current_id
           /\ round_robin_counter' = IF reached THEN 0 ELSE round_robin_counter
    /\ UNCHANGED <<gateway_vars, credentials_file, session_map, scheduling_mode, refresh_locks, now, issued, calls>>

report_quota_exhausted(i) ==
    /\ HasEntry(entries, i)
    /\ LET was_disabled == EntryOf(entries, i).disabled
       IN  /\ entries' = UpdateEntry(entries, i, QuotaEntry(EntryOf(entries, i)))
           /\ current_id' = IF was_disabled THEN current_id
                            ELSE NextCurrent(entries', current_id)
           /\ round_robin_counter' = IF was_disabled THEN round_robin_counter ELSE 0
    /\ UNCHANGED <<gateway_vars, credentials_file, session_map, scheduling_mode, refresh_locks, now, issued, calls>>

----------------------------------------------------------------------------
(* Admin operations *)

DisableEntry(e) == [e EXCEPT !.disabled = TRUE, !.disabled_reason = "Manual"]

EnableEntry(e) ==
    [e EXCEPT !.disabled = FALSE, !.failure_count = 0, !.disabled_reason = NoReason]

set_disabled(i, disabled) ==
    /\ HasEntry(entries, i)
    /\ entries' = IF disabled THEN UpdateEntry(entries, i, DisableEntry(EntryOf(entries, i)))
                  ELSE UpdateEntry(entries, i, EnableEntry(EntryOf(entries, i)))
    /\ round_robin_counter' = 0
    /\ credentials_file' = fs_write(persist_credentials(entries'))
    /\ UNCHANGED <<gateway_vars, current_id, session_map, scheduling_mode, refresh_locks,
                   now, issued, calls>>

\* select_highest_priority
select_highest_priority(es, cur) == NextCurrent(es, cur)

set_priority(i, priority) ==
    /\ HasEntry(entries, i)
    /\ entries' = [k \in 1..Len(entries) |->
                     IF entries[k].id = i
                     THEN [entries[k] EXCEPT !.credentials.priority = priority]
                     ELSE entries[k]]
    /\ current_id' = select_highest_priority(entries', current_id)
    /\ credentials_file' = fs_write(persist_credentials(entries'))
    /\ UNCHANGED <<gateway_vars, session_map, round_robin_counter, scheduling_mode,
                   refresh_locks, now, issued, calls>>

reset_and_enable(i) ==
    /\ HasEntry(entries, i)
    /\ entries' = UpdateEntry(entries, i, EnableEntry(EntryOf(entries, i)))
    /\ credentials_file' = fs_write(persist_credentials(entries'))
    /\ UNCHANGED <<gateway_vars, current_id, session_map, round_robin_counter, scheduling_mode,
                   refresh_locks, now, issued, calls>>

\* add_credential once its trial refresh has succeeded: id = max + 1,
\* the entry is appended.
NewId(es) == MaxOf(EntryIds(es)) + 1

add_credential(priority, expires_in) ==
    /\ NewId(entries) <= MaxId
    /\ issued < MaxIssued
    /\ issued' = issued + 1
    /\ entries' = Append(entries,
          CredentialEntry(NewId(entries),
              Refreshed(Credentials(priority, NoToken, NoExpiry), NewToken(issued), expires_in)))
    /\ round_robin_counter' = AfterPersist(round_robin_counter)
    /\ credentials_file' = fs_write(persist_credentials(entries'))
    /\ UNCHANGED <<gateway_vars, current_id, session_map, scheduling_mode, refresh_locks, now, calls>>

RemoveEntry(es, i) == SelectSeq(es, LAMBDA e : e.id # i)

\* Mutant: an enabled credential can be deleted.
delete_credential_result_any(es, i) ==
    IF ~HasEntry(es, i) THEN "NotFound" ELSE "Ok"

\* delete_credential, what it returns: an error for a credential that does
\* not exist or is not disabled.
delete_credential_result(es, i) ==
    IF ~HasEntry(es, i) THEN "NotFound"
    ELSE IF ~EntryOf(es, i).disabled THEN "NotDisabled"
    ELSE "Ok"

delete_credential(i) ==
    /\ delete_credential_result(entries, i) = "Ok"
    /\ entries' = RemoveEntry(entries, i)
    /\ current_id' = IF entries' = <<>> THEN NoId
                     ELSE IF current_id = i
                          THEN select_highest_priority(entries', current_id)
                          ELSE current_id
    /\ round_robin_counter' = AfterPersist(round_robin_counter)
    /\ credentials_file' = fs_write(persist_credentials(entries'))
    /\ UNCHANGED <<gateway_vars, session_map, scheduling_mode, refresh_locks, now, issued, calls>>

\* add_credential step by step.  The id is computed under the entries lock
\* (once the trial refresh has succeeded), the lock is released, and the
\* entry is pushed under the lock taken again; other threads of the runtime
\* run in between.
NumAdds == 2          \* concurrent calls of add_credential
AddCalls == 1..NumAdds
NoAdd == [pc |-> "idle", new_id |-> NoId, credentials |-> NoCredentials]

add_credential_new_id(a, priority, expires_in) ==
    /\ adding[a].pc = "idle"
    /\ NewId(entries) <= MaxId
    /\ issued < MaxIssued
    /\ issued' = issued + 1
    /\ adding' = [adding EXCEPT ![a] =
          [pc |-> "push", new_id |-> NewId(entries),
           credentials |-> Refreshed(Credentials(priority, NoToken, NoExpiry),
                                     NewToken(issued), expires_in)]]
    /\ UNCHANGED <<beside_adds, credentials_file, entries, current_id, session_map, round_robin_counter,
                   scheduling_mode, refresh_locks, now, calls>>

add_credential_push(a) ==
    /\ adding[a].pc = "push"
    /\ entries' = Append(entries, CredentialEntry(adding[a].new_id, adding[a].credentials))
    /\ round_robin_counter' = AfterPersist(round_robin_counter)
    /\ adding' = [adding EXCEPT ![a] = NoAdd]
    /\ credentials_file' = fs_write(persist_credentials(entries'))
    /\ UNCHANGED <<beside_adds, current_id, session_map, scheduling_mode,
                   refresh_locks, now, issued, calls>>

set_scheduling_mode(mode) ==
    /\ scheduling_mode # mode
    /\ scheduling_mode' = mode
    /\ UNCHANGED <<gateway_vars, credentials_file, entries, current_id, session_map, round_robin_counter,
                   refresh_locks, now, issued, calls>>

----------------------------------------------------------------------------
(* The pool manager (src/src/kiro/pool_manager.rs) and the routing of a    *)
(* request to the provider of a pool (src/src/anthropic/handlers.rs)       *)

MaxPoolPriority == 1      \* pool priorities are 0..MaxPoolPriority
MaxPoolCredentials == 1   \* a pool has at most this many credentials

DEFAULT_POOL_ID == "default"
AUTO_ROUTE_POOL_ID == "__auto__"
PoolIds == {DEFAULT_POOL_ID, "premium", "backup"}
PoolPriorities == 0..MaxPoolPriority
NoPoolId == "None"        \* Option<Arc<PoolRuntime>>::None, Option<&str>::None
GlobalProvider == "kiro_provider"   \* AppState::kiro_provider

\* What an API key may be bound to: nothing, automatic routing, a pool id.
Bindings == {NoPoolId, AUTO_ROUTE_POOL_ID} \cup PoolIds

\* Pool: the configuration of a pool (of its fields, those the routing reads)
Pool(enabled, priority) == [exists |-> TRUE, enabled |-> enabled, priority |-> priority]
NoPool == [exists |-> FALSE, enabled |-> FALSE, priority |-> 0]
default_pool == Pool(TRUE, 0)

\* PoolRuntime: the configuration and the pool's own MultiTokenManager, of
\* which the routing reads snapshot().available, the number of its entries
\* that are not disabled.
PoolRuntime(config, available) == [config |-> config, available |-> available]
NoRuntime == PoolRuntime(NoPool, 0)

is_enabled(runtime) == runtime.config.enabled

\* HashMap::get
get_pool(ps, pool_id) ==
    IF pool_id \in PoolIds /\ ps[pool_id].config.exists THEN pool_id ELSE NoPoolId

\* HashMap::values() yields the pools in an unspecified order: any sequence
\* that holds each existing pool once.
PoolOrders(ps) ==
    LET present == {p \in PoolIds : ps[p].config.exists}
    IN  {o \in [1..Cardinality(present) -> present] :
            \A i, j \in 1..Cardinality(present) : i # j => o[i] # o[j]}

\* Only auto_route_pool iterates over the map.
OrdersFor(ps, pool_id) ==
    IF pool_id = AUTO_ROUTE_POOL_ID THEN PoolOrders(ps) ELSE {<<>>}

\* Vec::sort_by_key(|p| p.config.priority): a stable sort.
RECURSIVE InsertPool(_, _, _)
InsertPool(s, p, ps) ==
    IF s = <<>> THEN <<p>>
    ELSE IF ps[p].config.priority < ps[s[Len(s)]].config.priority
         THEN Append(InsertPool(SubSeq(s, 1, Len(s) - 1), p, ps), s[Len(s)])
         ELSE Append(s, p)

RECURSIVE sort_by_key(_, _)
sort_by_key(s, ps) ==
    IF s = <<>> THEN <<>>
    ELSE InsertPool(sort_by_key(SubSeq(s, 1, Len(s) - 1), ps), s[Len(s)], ps)

\* The loop of auto_route_pool: the first pool with an available credential.
RECURSIVE FirstAvailable(_, _)
FirstAvailable(s, ps) ==
    IF s = <<>> THEN NoPoolId
    ELSE IF ps[s[1]].available > 0 THEN s[1]
         ELSE FirstAvailable(Tail(s), ps)

\* Mutant: the pools are tried in the order of the map, not sorted.
auto_route_pool_unsorted(ps, order) ==
    FirstAvailable(SelectSeq(order, LAMBDA p : is_enabled(ps[p])), ps)

auto_route_pool(ps, order) ==
    LET enabled_pools == SelectSeq(order, LAMBDA p : is_enabled(ps[p]))
    IN  FirstAvailable(sort_by_key(enabled_pools, ps), ps)

\* Mutant: an unavailable bound pool falls back to the default pool.
get_pool_for_api_key_fallback(ps, pool_id, order) ==
    IF pool_id = AUTO_ROUTE_POOL_ID THEN auto_route_pool(ps, order)
    ELSE LET wanted == IF pool_id = NoPoolId THEN NoPoolId ELSE get_pool(ps, pool_id)
             pool == IF wanted # NoPoolId /\ is_enabled(ps[wanted]) THEN wanted
                     ELSE get_pool(ps, DEFAULT_POOL_ID)
         IN  IF pool = NoPoolId THEN NoPoolId
             ELSE IF is_enabled(ps[pool]) THEN pool ELSE NoPoolId

get_pool_for_api_key(ps, pool_id, order) ==
    IF pool_id = AUTO_ROUTE_POOL_ID THEN auto_route_pool(ps, order)
    ELSE LET pool == get_pool(ps, IF pool_id = NoPoolId THEN DEFAULT_POOL_ID ELSE pool_id)
         IN  IF pool = NoPoolId THEN NoPoolId
             ELSE IF is_enabled(ps[pool]) THEN pool ELSE NoPoolId

\* resolve_kiro_provider: [err, provider]; the provider is that of a pool,
\* or the global one.
resolve_kiro_provider(pm, ps, pool_id, order) ==
    LET pool == get_pool_for_api_key(ps, pool_id, order)
    IN  IF pm /\ pool_id # NoPoolId
        THEN IF pool # NoPoolId THEN [err |-> FALSE, provider |-> pool]
             ELSE [err |-> TRUE, provider |-> NoPoolId]
        ELSE IF pm /\ pool # NoPoolId THEN [err |-> FALSE, provider |-> pool]
        ELSE [err |-> FALSE, provider |-> GlobalProvider]

NoResponse == [pool_id |-> NoPoolId, status |-> "None", provider |-> NoPoolId]

\* handle_messages_request for a key bound to pool_id: 503 pool_unavailable,
\* or the request goes on with the provider resolved.
handle_messages_request(pool_id, order) ==
    /\ UNCHANGED <<beside_pools, pool_manager, pools, pools_file, pool_result>>
    /\ LET r == resolve_kiro_provider(pool_manager, pools, pool_id, order)
       IN  response' = [pool_id |-> pool_id,
                        status |-> IF r.err THEN "SERVICE_UNAVAILABLE" ELSE "Forwarded",
                        provider |-> r.provider]

\* persist_pools: the configurations of the pools of the map
persist_pools(ps) == [p \in PoolIds |-> ps[p].config]

create_pool(pool_id, pool) ==
    /\ pool_manager
    /\ IF get_pool(pools, pool_id) # NoPoolId
       THEN /\ pool_result' = "PoolAlreadyExists"
            /\ UNCHANGED <<pools, pools_file>>
       ELSE /\ pools' = [pools EXCEPT ![pool_id] = PoolRuntime(pool, 0)]
            /\ pools_file' = persist_pools(pools')
            /\ pool_result' = "Ok"
    /\ UNCHANGED <<beside_pools, pool_manager, response>>

\* UpdatePoolRequest: enabled and priority, each an Option
Some(value) == [some |-> TRUE, value |-> value]
Updated(value, update) == IF update.some THEN update.value ELSE value

update_pool(pool_id, enabled, priority) ==
    /\ pool_manager
    /\ IF get_pool(pools, pool_id) = NoPoolId
       THEN /\ pool_result' = "PoolNotFound"
            /\ UNCHANGED <<pools, pools_file>>
       ELSE /\ pools' = [pools EXCEPT ![pool_id].config =
                            Pool(Updated(@.enabled, enabled), Updated(@.priority, priority))]
            /\ pools_file' = persist_pools(pools')
            /\ pool_result' = "Ok"
    /\ UNCHANGED <<beside_pools, pool_manager, response>>

\* Mutant: the default pool is not protected.
delete_pool_any(pool_id) ==
    /\ pool_manager
    /\ IF get_pool(pools, pool_id) = NoPoolId
       THEN /\ pool_result' = "PoolNotFound"
            /\ UNCHANGED <<pools, pools_file>>
       ELSE /\ pools' = [pools EXCEPT ![pool_id] = NoRuntime]
            /\ pools_file' = persist_pools(pools')
            /\ pool_result' = "Ok"
    /\ UNCHANGED <<beside_pools, pool_manager, response>>

delete_pool(pool_id) ==
    /\ pool_manager
    /\ IF pool_id = DEFAULT_POOL_ID
       THEN /\ pool_result' = "CannotDeleteDefaultPool"
            /\ UNCHANGED <<pools, pools_file>>
       ELSE IF get_pool(pools, pool_id) = NoPoolId
       THEN /\ pool_result' = "PoolNotFound"
            /\ UNCHANGED <<pools, pools_file>>
       ELSE /\ pools' = [pools EXCEPT ![pool_id] = NoRuntime]
            /\ pools_file' = persist_pools(pools')
            /\ pool_result' = "Ok"
    /\ UNCHANGED <<beside_pools, pool_manager, response>>

\* PoolsConfig::ensure_default_pool
ensure_default_pool(file) ==
    IF file[DEFAULT_POOL_ID].exists THEN file
    ELSE [file EXCEPT ![DEFAULT_POOL_ID] = default_pool]

\* The pools that reload builds from pools.json and from the credentials of
\* credentials.json, of which by_pool[p] name pool p (none of them disabled
\* in a manager just built).
reloaded(file, by_pool) ==
    LET pools_config == ensure_default_pool(file)
    IN  [p \in PoolIds |->
            IF pools_config[p].exists THEN PoolRuntime(pools_config[p], by_pool[p])
            ELSE NoRuntime]

CredentialsByPool == [PoolIds -> 0..MaxPoolCredentials]

reload(by_pool) ==
    /\ pool_manager
    /\ pools' = reloaded(pools_file, by_pool)
    /\ pool_result' = "Ok"
    /\ UNCHANGED <<beside_pools, pool_manager, pools_file, response>>

\* The credentials of a pool's own manager are disabled or enabled (by its
\* report_failure, set_disabled, self-healing, ...): snapshot().available
\* changes.
pool_available(pool_id, available) ==
    /\ get_pool(pools, pool_id) # NoPoolId
    /\ pools[pool_id].available # available
    /\ pools' = [pools EXCEPT ![pool_id].available = available]
    /\ UNCHANGED <<beside_pools, pool_manager, pools_file, pool_result, response>>

\* The gateway before PoolManager::new
PoolsIdle ==
    /\ pool_manager = FALSE
    /\ pools = [p \in PoolIds |-> NoRuntime]
    /\ pools_file = [p \in PoolIds |-> NoPool]
    /\ pool_result = "None"
    /\ response = NoResponse

----------------------------------------------------------------------------
(* The CSRF tokens of the admin API (src/src/admin/csrf.rs,                *)
(* src/src/admin/middleware.rs)                                            *)

MaxTokens == 2            \* generate_token is called at most this many times
NumValidations == 2       \* concurrent requests with an x-csrf-token header
MaxCsrfTime == 3          \* the clock of the CSRF specification stops here
ttl_secs == 2             \* CsrfManager::ttl_secs, in steps of the clock
cleanup_interval == 2     \* CsrfManager::cleanup_interval (100 in the code)

\* The tokens are 32 random bytes: the n-th token generated is taken to differ
\* from the n - 1 before it, and is written n.
Tokens == 1..MaxTokens
Validations == 1..NumValidations

NoValidation == [pc |-> "idle", token |-> NoToken, now |-> 0, valid |-> FALSE]

\* tokens.retain(|_, expires_at| *expires_at > now)
cleanup_expired(tokens, t) ==
    [k \in Tokens |-> IF tokens[k] # NoExpiry /\ tokens[k] > t THEN tokens[k] ELSE NoExpiry]

\* maybe_cleanup, count being what fetch_add returned
maybe_cleanup(tokens, count, t) ==
    IF count % cleanup_interval = 0 THEN cleanup_expired(tokens, t) ELSE tokens

generate_token ==
    /\ generated < MaxTokens
    /\ operation_count' = (operation_count + 1) % cleanup_interval
    /\ generated' = generated + 1
    /\ csrf_tokens' = [maybe_cleanup(csrf_tokens, operation_count, now)
                          EXCEPT ![generated + 1] = now + ttl_secs]
    /\ UNCHANGED <<validations, now, beside_csrf>>

\* csrf_middleware on a POST, PUT or DELETE request whose x-csrf-token
\* header is `token` (NoToken: no header, 403 at once); validate_token
\* begins with maybe_cleanup.
csrf_middleware(v, token) ==
    /\ validations[v].pc \in {"idle", "done"}
    /\ IF token = NoToken
       THEN /\ validations' = [validations EXCEPT ![v] = [NoValidation EXCEPT !.pc = "done"]]
            /\ UNCHANGED <<csrf_tokens, operation_count>>
       ELSE /\ operation_count' = (operation_count + 1) % cleanup_interval
            /\ csrf_tokens' = maybe_cleanup(csrf_tokens, operation_count, now)
            /\ validations' = [validations EXCEPT ![v] =
                  [NoValidation EXCEPT !.pc = "now", !.token = token]]
    /\ UNCHANGED <<generated, now, beside_csrf>>

\* let now = chrono::Utc::now().timestamp()
validate_token_now(v) ==
    /\ validations[v].pc = "now"
    /\ validations' = [validations EXCEPT ![v].pc = "lock", ![v].now = now]
    /\ UNCHANGED <<csrf_tokens, operation_count, generated, now, beside_csrf>>

\* Mutant: a valid token is left in the store.
validate_token_kept(tokens, token, t) ==
    IF tokens[token] # NoExpiry
    THEN IF tokens[token] > t
         THEN [valid |-> TRUE, tokens |-> tokens]
         ELSE [valid |-> FALSE, tokens |-> [tokens EXCEPT ![token] = NoExpiry]]
    ELSE [valid |-> FALSE, tokens |-> tokens]

\* validate_token under the write lock: [valid, tokens]
validate_token(tokens, token, t) ==
    IF tokens[token] # NoExpiry
    THEN IF tokens[token] > t
         THEN [valid |-> TRUE, tokens |-> [tokens EXCEPT ![token] = NoExpiry]]
         ELSE [valid |-> FALSE, tokens |-> [tokens EXCEPT ![token] = NoExpiry]]
    ELSE [valid |-> FALSE, tokens |-> tokens]

\* The write lock is taken; the request goes on (valid) or is answered 403.
validate_token_locked(v) ==
    LET r == validate_token(csrf_tokens, validations[v].token, validations[v].now)
    IN  /\ validations[v].pc = "lock"
        /\ csrf_tokens' = r.tokens
        /\ validations' = [validations EXCEPT ![v].pc = "done", ![v].valid = r.valid]
        /\ UNCHANGED <<operation_count, generated, now, beside_csrf>>

\* Utc::now() advances.
csrf_tick ==
    /\ now < MaxCsrfTime
    /\ now' = now + 1
    /\ UNCHANGED <<csrf_vars, beside_csrf>>

\* CsrfManager::new
CsrfIdle ==
    /\ csrf_tokens = [k \in Tokens |-> NoExpiry]
    /\ operation_count = 0
    /\ generated = 0
    /\ validations = [v \in Validations |-> NoValidation]

AddsIdle == adding = [a \in AddCalls |-> NoAdd]

----------------------------------------------------------------------------
(* The rate limiter (src/src/anthropic/middleware.rs).  The clock is the   *)
(* time elapsed since RateLimiter::new, in minutes.                        *)

NumKeys == 2              \* API keys presented
NumRequests == 2          \* concurrent requests
MaxMinute == 1            \* the clock of the rate limiter stops here
global_per_minute == 3    \* RateLimiter::global_per_minute
global_per_hour == 5      \* RateLimiter::global_per_hour
per_key_per_minute == 2   \* RateLimiter::per_key_per_minute
per_key_per_hour == 4     \* RateLimiter::per_key_per_hour

MinutesPerHour == 60
MinuteRetention == 120    \* cleanup_old_records: minute buckets kept
HourRetention == 2        \* cleanup_old_records: hour buckets kept

ApiKeys == 1..NumKeys
RateRequests == 1..NumRequests
Minutes == 0..MaxMinute
Hours == 0..(MaxMinute \div MinutesPerHour)

NoRequest == [pc |-> "idle", api_key |-> 0, status |-> "None"]

\* u64::saturating_sub
saturating_sub(a, b) == IF a > b THEN a - b ELSE 0

\* check_rate_limit at time t: Ok or Err.  A bucket that is absent counts 0
\* (entry(..).or_insert(0)); the maps give 0 for an absent bucket.
check_rate_limit(api_key, t) ==
    LET current_minute == t
        current_hour == t \div MinutesPerHour
    IN  IF global_minute_requests[current_minute] >= global_per_minute THEN "Err"
        ELSE IF global_hour_requests[current_hour] >= global_per_hour THEN "Err"
        ELSE IF key_minute_requests[api_key][current_minute] >= per_key_per_minute THEN "Err"
        ELSE IF key_hour_requests[api_key][current_hour] >= per_key_per_hour THEN "Err"
        ELSE "Ok"

\* retain(|&k, _| k > threshold)
retain(buckets, threshold) ==
    [k \in DOMAIN buckets |-> IF k > threshold THEN buckets[k] ELSE 0]

\* cleanup_old_records on one map: threshold = current.saturating_sub(retention)
cleanup_old_records(buckets, current, retention) ==
    retain(buckets, saturating_sub(current, retention))

\* rate_limit_middleware, first part: check_rate_limit; 429 on Err.
rate_limit_middleware(r, api_key) ==
    /\ rate_requests[r].pc \in {"idle", "done"}
    /\ rate_requests' = [rate_requests EXCEPT ![r] =
          IF check_rate_limit(api_key, now) = "Ok"
          THEN [pc |-> "record", api_key |-> api_key, status |-> "None"]
          ELSE [pc |-> "done", api_key |-> api_key, status |-> "TOO_MANY_REQUESTS"]]
    /\ UNCHANGED <<global_minute_requests, global_hour_requests,
                   key_minute_requests, key_hour_requests, now, beside_rate>>

\* rate_limit_middleware, second part: record_request, then the request
\* goes on.
record_request(r) ==
    LET api_key == rate_requests[r].api_key
        current_minute == now
        current_hour == now \div MinutesPerHour
    IN  /\ rate_requests[r].pc = "record"
        /\ global_minute_requests' =
              cleanup_old_records([global_minute_requests EXCEPT ![current_minute] = @ + 1],
                                  current_minute, MinuteRetention)
        /\ global_hour_requests' =
              cleanup_old_records([global_hour_requests EXCEPT ![current_hour] = @ + 1],
                                  current_hour, HourRetention)
        /\ key_minute_requests' =
              [k \in ApiKeys |->
                  cleanup_old_records(
                      IF k = api_key
                      THEN [key_minute_requests[k] EXCEPT ![current_minute] = @ + 1]
                      ELSE key_minute_requests[k],
                      current_minute, MinuteRetention)]
        /\ key_hour_requests' =
              [k \in ApiKeys |->
                  cleanup_old_records(
                      IF k = api_key
                      THEN [key_hour_requests[k] EXCEPT ![current_hour] = @ + 1]
                      ELSE key_hour_requests[k],
                      current_hour, HourRetention)]
        /\ rate_requests' = [rate_requests EXCEPT ![r].pc = "done", ![r].status = "Forwarded"]
        /\ UNCHANGED <<now, beside_rate>>

\* A minute passes.
rate_tick ==
    /\ now < MaxMinute
    /\ now' = now + 1
    /\ UNCHANGED <<rate_vars, beside_rate>>

\* RateLimiter::new
RateIdle ==
    /\ global_minute_requests = [m \in Minutes |-> 0]
    /\ global_hour_requests = [h \in Hours |-> 0]
    /\ key_minute_requests = [k \in ApiKeys |-> [m \in Minutes |-> 0]]
    /\ key_hour_requests = [k \in ApiKeys |-> [h \in Hours |-> 0]]
    /\ rate_requests = [r \in RateRequests |-> NoRequest]

----------------------------------------------------------------------------
(* The SSE relay: create_sse_stream and create_buffered_sse_stream.  The
   stream contexts (StreamContext, BufferedStreamContext) are modelled after
   the specification of the relay. *)

MaxChunks == 3            \* chunks of the upstream body
MaxPings == 2             \* ticks of the ping interval
MaxPercentage == 2        \* contextUsageEvent: percentage
NumContents == 2          \* assistantResponseEvent: contents
EstimatedInputTokens == 1 \* RequestContext::input_tokens, the estimate
TokensPerPercent == 2000  \* CONTEXT_WINDOW_SIZE / 100

NoTokens == -1

SseEvent(type, value) == [type |-> type, value |-> value]

\* create_ping_sse
create_ping_sse == SseEvent("ping", 0)

\* The events of the upstream body
assistantResponseEvent(content) == [kind |-> "assistantResponseEvent", value |-> content]
contextUsageEvent(percentage) == [kind |-> "contextUsageEvent", value |-> percentage]
KiroEvents ==
    {assistantResponseEvent(c) : c \in 1..NumContents}
        \cup {contextUsageEvent(p) : p \in 1..MaxPercentage}

\* StreamContext::generate_initial_events
generate_initial_events(input_tokens) ==
    <<SseEvent("message_start", input_tokens), SseEvent("content_block_start", 0)>>

\* StreamContext::process_kiro_event: the SSE events of one upstream event
process_kiro_event(event) ==
    IF event.kind = "assistantResponseEvent"
    THEN <<SseEvent("content_block_delta", event.value)>>
    ELSE <<>>

\* The input tokens a context holds after an upstream event
context_input_tokens(tokens, event) ==
    IF event.kind = "contextUsageEvent" THEN event.value * TokensPerPercent ELSE tokens

\* StreamContext::generate_final_events: the terminal events
generate_final_events ==
    <<SseEvent("content_block_stop", 0), SseEvent("message_delta", 0),
      SseEvent("message_stop", 0)>>

\* BufferedStreamContext::finish_and_get_all_events: message_start with the
\* input tokens of the contextUsageEvent (the estimate when there was none),
\* the buffered events, the terminal events.
finish_and_get_all_events(ctx) ==
    <<SseEvent("message_start",
               IF ctx.context_input_tokens # NoTokens THEN ctx.context_input_tokens
               ELSE ctx.input_tokens),
      SseEvent("content_block_start", 0)>>
        \o ctx.buffer \o generate_final_events

NoContext == [input_tokens |-> 0, context_input_tokens |-> NoTokens, buffer |-> <<>>]
NoBody == [chunks |-> 0, received |-> <<>>, last |-> "None"]
NoClient == [events |-> <<>>, pings |-> 0, done |-> FALSE]

\* handle_messages_request once the upstream has answered 200: the SSE
\* stream of the mode is created, the standard one with its initial events.
build_sse_response(buffered) ==
    /\ stream = "None"
    /\ stream' = "Open"
    /\ use_buffered_stream' = buffered
    /\ finished' = FALSE
    /\ stream_ctx' = [NoContext EXCEPT !.input_tokens = EstimatedInputTokens]
    /\ body_stream' = NoBody
    /\ client' = [NoClient EXCEPT !.events =
          IF buffered THEN <<>> ELSE generate_initial_events(EstimatedInputTokens)]
    /\ UNCHANGED <<now, beside_relay>>

Fed(event) ==
    [body_stream EXCEPT !.chunks = @ + 1, !.received = Append(@, event), !.last = "Chunk"]

\* A contextUsageEvent comes once in a body.
MayCome(event) ==
    event.kind = "contextUsageEvent"
        => \A k \in 1..Len(body_stream.received) :
              body_stream.received[k].kind # "contextUsageEvent"

\* create_sse_stream, body_stream.next() = Some(Ok(chunk)): the events of the
\* chunk go out.
sse_chunk(event) ==
    /\ stream = "Open" /\ ~use_buffered_stream /\ ~finished
    /\ body_stream.chunks < MaxChunks /\ MayCome(event)
    /\ body_stream' = Fed(event)
    /\ stream_ctx' = [stream_ctx EXCEPT
          !.context_input_tokens = context_input_tokens(@, event)]
    /\ client' = [client EXCEPT !.events = @ \o process_kiro_event(event)]
    /\ UNCHANGED <<stream, use_buffered_stream, finished, now, beside_relay>>

\* Mutant: the stream is not marked finished.
sse_final_unfinished(end) ==
    /\ stream = "Open" /\ ~use_buffered_stream /\ ~finished
    /\ body_stream' = [body_stream EXCEPT !.last = end]
    /\ client' = [client EXCEPT !.events = @ \o generate_final_events]
    /\ UNCHANGED <<finished, stream_ctx, stream, use_buffered_stream, now, beside_relay>>

\* create_sse_stream, body_stream.next() = Some(Err(e)) or None: the
\* terminal events go out and the stream is finished.
sse_final(end) ==
    /\ stream = "Open" /\ ~use_buffered_stream /\ ~finished
    /\ body_stream' = [body_stream EXCEPT !.last = end]
    /\ client' = [client EXCEPT !.events = @ \o generate_final_events]
    /\ finished' = TRUE
    /\ UNCHANGED <<stream_ctx, stream, use_buffered_stream, now, beside_relay>>

\* ping_interval.tick() (either stream)
sse_ping ==
    /\ stream = "Open" /\ ~finished
    /\ client.pings < MaxPings
    /\ client' = [client EXCEPT !.events = Append(@, create_ping_sse), !.pings = @ + 1]
    /\ UNCHANGED <<stream, use_buffered_stream, finished, stream_ctx, body_stream,
                   now, beside_relay>>

\* Mutant: the events of the chunk go out at once, as in the standard stream.
buffered_chunk_through(event) ==
    /\ stream = "Open" /\ use_buffered_stream /\ ~finished
    /\ body_stream.chunks < MaxChunks /\ MayCome(event)
    /\ body_stream' = Fed(event)
    /\ stream_ctx' = [stream_ctx EXCEPT
          !.context_input_tokens = context_input_tokens(@, event)]
    /\ client' = [client EXCEPT !.events = @ \o process_kiro_event(event)]
    /\ UNCHANGED <<stream, use_buffered_stream, finished, now, beside_relay>>

\* create_buffered_sse_stream, body_stream.next() = Some(Ok(chunk)):
\* process_and_buffer, and the loop goes on without an item of the stream.
buffered_chunk(event) ==
    /\ stream = "Open" /\ use_buffered_stream /\ ~finished
    /\ body_stream.chunks < MaxChunks /\ MayCome(event)
    /\ body_stream' = Fed(event)
    /\ stream_ctx' = [stream_ctx EXCEPT
          !.context_input_tokens = context_input_tokens(@, event),
          !.buffer = @ \o process_kiro_event(event)]
    /\ UNCHANGED <<client, stream, use_buffered_stream, finished, now, beside_relay>>

\* create_buffered_sse_stream, body_stream.next() = Some(Err(e)) or None:
\* finish_and_get_all_events go out and the stream is finished.
buffered_final(end) ==
    /\ stream = "Open" /\ use_buffered_stream /\ ~finished
    /\ body_stream' = [body_stream EXCEPT !.last = end]
    /\ client' = [client EXCEPT !.events = @ \o finish_and_get_all_events(stream_ctx)]
    /\ finished' = TRUE
    /\ UNCHANGED <<stream_ctx, stream, use_buffered_stream, now, beside_relay>>

\* The unfold of a finished stream returns None: the response ends.
stream_end ==
    /\ stream = "Open" /\ finished
    /\ stream' = "Done"
    /\ client' = [client EXCEPT !.done = TRUE]
    /\ UNCHANGED <<use_buffered_stream, finished, stream_ctx, body_stream, now, beside_relay>>

\* No SSE response
RelayIdle ==
    /\ stream = "None"
    /\ use_buffered_stream = FALSE
    /\ finished = FALSE
    /\ stream_ctx = NoContext
    /\ body_stream = NoBody
    /\ client = NoClient

----------------------------------------------------------------------------
(* The non-streaming response: build_non_stream_response *)

MaxBodyEvents == 3        \* events of the upstream body of a non-streaming request
NumToolUses == 1          \* toolUseEvent: tool_use_ids

ContentLengthExceededException == 1
OtherException == 2

\* toolUseEvent of a tool_use_id, with the stop flag (1) or without (0)
toolUseEvent(tool_use_id, stop) ==
    [kind |-> "toolUseEvent", value |-> 2 * tool_use_id + stop]
exceptionEvent(exception_type) == [kind |-> "exception", value |-> exception_type]

BodyEvents ==
    {assistantResponseEvent(1), contextUsageEvent(1)}
        \cup {toolUseEvent(i, stop) : i \in 1..NumToolUses, stop \in {0, 1}}
        \cup {exceptionEvent(x) : x \in {ContentLengthExceededException, OtherException}}

\* The variables of build_non_stream_response before the loop
BeforeEvents(input_tokens) ==
    [text_content |-> <<>>, tool_uses |-> <<>>, has_tool_use |-> FALSE,
     stop_reason |-> "end_turn", context_input_tokens |-> NoTokens,
     input_tokens |-> input_tokens]

\* One turn of the loop over the decoded events
AfterEvent(acc, event) ==
    IF event.kind = "assistantResponseEvent"
    THEN [acc EXCEPT !.text_content = Append(@, event.value)]
    ELSE IF event.kind = "toolUseEvent"
    THEN [acc EXCEPT !.has_tool_use = TRUE,
                     !.tool_uses = IF event.value % 2 = 1
                                   THEN Append(@, event.value \div 2) ELSE @]
    ELSE IF event.kind = "contextUsageEvent"
    THEN [acc EXCEPT !.context_input_tokens = context_input_tokens(@, event)]
    ELSE IF event.kind = "exception" /\ event.value = ContentLengthExceededException
    THEN [acc EXCEPT !.stop_reason = "max_tokens"]
    ELSE acc

RECURSIVE AfterEvents(_, _)
AfterEvents(acc, events) ==
    IF events = <<>> THEN acc
    ELSE AfterEvents(AfterEvent(acc, Head(events)), Tail(events))

\* Mutant: a tool use decides the stop_reason whatever it was.
stop_reason_tool_first(acc) ==
    IF acc.has_tool_use THEN "tool_use" ELSE acc.stop_reason

\* The stop_reason once the events have been read
stop_reason_of(acc) ==
    IF acc.has_tool_use /\ acc.stop_reason = "end_turn" THEN "tool_use"
    ELSE acc.stop_reason

NoResponseBody ==
    [built |-> FALSE, text |-> <<>>, tool_uses |-> <<>>, stop_reason |-> "None",
     input_tokens |-> 0]

\* The upstream body of a non-streaming request grows by an event.
body_event(event) ==
    /\ ~response_body.built
    /\ Len(body_bytes) < MaxBodyEvents
    /\ body_bytes' = Append(body_bytes, event)
    /\ UNCHANGED <<response_body, now, beside_non_stream>>

build_non_stream_response(input_tokens) ==
    LET acc == AfterEvents(BeforeEvents(input_tokens), body_bytes)
    IN  /\ ~response_body.built
        /\ response_body' =
              [built |-> TRUE, text |-> acc.text_content, tool_uses |-> acc.tool_uses,
               stop_reason |-> stop_reason_of(acc),
               input_tokens |-> IF acc.context_input_tokens # NoTokens
                                THEN acc.context_input_tokens ELSE acc.input_tokens]
        /\ UNCHANGED <<body_bytes, now, beside_non_stream>>

\* No non-streaming request
NonStreamIdle ==
    /\ body_bytes = <<>>
    /\ response_body = NoResponseBody

----------------------------------------------------------------------------
(* GET /health: health_check *)

NoHealth == [status |-> "None", status_code |-> "None", total |-> 0, available |-> 0]

\* HealthStatus of the numbers of a snapshot
HealthStatus(total, available) ==
    IF available = 0 THEN "unhealthy"
    ELSE IF available < total \div 2 THEN "degraded"
    ELSE "healthy"

\* The HTTP status code of a HealthStatus
StatusCode(status) ==
    IF status = "unhealthy" THEN "SERVICE_UNAVAILABLE" ELSE "OK"

health_check ==
    LET total == Len(entries)
        available == Len(Available(entries))
        status == HealthStatus(total, available)
    IN  /\ health' = [status |-> status, status_code |-> StatusCode(status),
                      total |-> total, available |-> available]
        /\ UNCHANGED <<now, beside_health>>

HealthIdle == health = NoHealth

----------------------------------------------------------------------------
(* The API keys: ApiKeyManager and auth_middleware *)

MaxApiKeys == 2           \* API keys stored at a time
MaxKeyId == 2             \* ids of API keys are 1..MaxKeyId
NumNames == 2             \* names of API keys
NumKeyValues == 2         \* values of API keys
NumCreates == 2           \* concurrent calls of ApiKeyManager::create

KeyNames == 1..NumNames
KeyValues == 1..NumKeyValues
KeyPools == {NoPoolId, "premium"}
Creates == 1..NumCreates

ApiKey(id, name, key, pool_id) ==
    [id |-> id, name |-> name, key |-> key, enabled |-> TRUE, pool_id |-> pool_id]

NoCreate == [pc |-> "idle", api_key |-> ApiKey(0, 0, 0, NoPoolId)]
NoAuth == [key |-> 0, status |-> "None", pool_id |-> NoPoolId]

\* The enabled keys with the value presented, in the order of the list
Matching(ks, key) == SelectSeq(ks, LAMBDA k : k.enabled /\ k.key = key)

\* ApiKeyManager::validate
validate(ks, key) == Matching(ks, key) # <<>>

\* Mutant: a disabled key is accepted too.
validate_and_get_pool_any(ks, key) ==
    LET found == SelectSeq(ks, LAMBDA k : k.key = key)
    IN  IF found # <<>> THEN [valid |-> TRUE, pool_id |-> found[1].pool_id]
        ELSE [valid |-> FALSE, pool_id |-> NoPoolId]

\* ApiKeyManager::validate_and_get_pool: [valid, pool_id]
validate_and_get_pool(ks, key) ==
    IF validate(ks, key)
    THEN [valid |-> TRUE, pool_id |-> Matching(ks, key)[1].pool_id]
    ELSE [valid |-> FALSE, pool_id |-> NoPoolId]

\* auth_middleware for a request that presents a key: the request goes on
\* with the pool of the key, or is answered 401.
auth_middleware(key) ==
    LET r == validate_and_get_pool(keys, key)
    IN  /\ authenticated' =
              IF r.valid THEN [key |-> key, status |-> "Next", pool_id |-> r.pool_id]
              ELSE [key |-> key, status |-> "UNAUTHORIZED", pool_id |-> NoPoolId]
        /\ UNCHANGED <<keys, next_id, api_keys_file, creating, api_key_result,
                       now, beside_api_key>>

\* ApiKeyManager::create and create_with_full_key, first part: the name is
\* looked up under the read lock of the keys and the id is taken from
\* next_id.
create(c, name, key, pool_id) ==
    /\ creating[c].pc = "idle"
    /\ next_id <= MaxKeyId
    /\ IF \E k \in 1..Len(keys) : keys[k].name = name
       THEN /\ api_key_result' = "DuplicateName"
            /\ UNCHANGED <<next_id, creating>>
       ELSE /\ creating' = [creating EXCEPT ![c] =
                  [pc |-> "push", api_key |-> ApiKey(next_id, name, key, pool_id)]]
            /\ next_id' = next_id + 1
            /\ UNCHANGED api_key_result
    /\ UNCHANGED <<keys, api_keys_file, authenticated, now, beside_api_key>>

\* ApiKeyManager::create, second part: the key is pushed under the write
\* lock and the keys are persisted.
create_push(c) ==
    /\ creating[c].pc = "push"
    /\ Len(keys) < MaxApiKeys
    /\ keys' = Append(keys, creating[c].api_key)
    /\ api_keys_file' = keys'
    /\ creating' = [creating EXCEPT ![c] = NoCreate]
    /\ api_key_result' = "Ok"
    /\ UNCHANGED <<next_id, authenticated, now, beside_api_key>>

\* ApiKeyManager::update with the fields of UpdateApiKeyRequest
update(id, name, enabled, pool_id) ==
    /\ IF \E k \in 1..Len(keys) : keys[k].id = id
       THEN /\ keys' = [k \in 1..Len(keys) |->
                  IF keys[k].id = id
                  THEN [keys[k] EXCEPT !.name = Updated(@, name),
                                       !.enabled = Updated(@, enabled),
                                       !.pool_id = Updated(@, pool_id)]
                  ELSE keys[k]]
            /\ api_keys_file' = keys'
            /\ api_key_result' = "Ok"
       ELSE /\ api_key_result' = "NotFound"
            /\ UNCHANGED <<keys, api_keys_file>>
    /\ UNCHANGED <<next_id, creating, authenticated, now, beside_api_key>>

\* ApiKeyManager::delete
delete(id) ==
    /\ IF \E k \in 1..Len(keys) : keys[k].id = id
       THEN /\ keys' = SelectSeq(keys, LAMBDA k : k.id # id)
            /\ api_keys_file' = keys'
            /\ api_key_result' = "Ok"
       ELSE /\ api_key_result' = "NotFound"
            /\ UNCHANGED <<keys, api_keys_file>>
    /\ UNCHANGED <<next_id, creating, authenticated, now, beside_api_key>>

\* ApiKeyManager::new without api_keys.json
ApiKeysIdle ==
    /\ keys = <<>>
    /\ next_id = 1
    /\ api_keys_file = <<>>
    /\ creating = [c \in Creates |-> NoCreate]
    /\ api_key_result = "None"
    /\ authenticated = NoAuth

----------------------------------------------------------------------------
(* The credentials file shared by the pools: PoolManager::reload gives     *)
(* every pool's MultiTokenManager the same credentials_path.               *)

MaxSharedToken == 2       \* access tokens of the pools' credentials are 0..MaxSharedToken

CredentialPools == {DEFAULT_POOL_ID, "premium"}

\* KiroCredentials with its pool_id (NoPoolId = absent)
KiroCredentials(pool_id, i, p, tok) ==
    [pool_id |-> pool_id, id |-> i, priority |-> p, access_token |-> tok]

\* reload: cred.pool_id.unwrap_or(DEFAULT_POOL_ID)
PoolOf(c) == IF c.pool_id = NoPoolId THEN DEFAULT_POOL_ID ELSE c.pool_id

\* reload: credentials_by_pool[pool_id]
credentials_by_pool(all_credentials, pool_id) ==
    SelectSeq(all_credentials, LAMBDA c : PoolOf(c) = pool_id)

\* MultiTokenManager::new on the credentials of a pool: those without an id
\* get max_existing_id + 1, + 2, ... in list order.
RECURSIVE AssignPoolIds(_, _)
AssignPoolIds(creds, new_id) ==
    IF creds = <<>> THEN <<>>
    ELSE <<[creds[1] EXCEPT !.id = IF @ = NoId THEN new_id ELSE @]>>
         \o AssignPoolIds(Tail(creds), IF creds[1].id = NoId THEN new_id + 1 ELSE new_id)

pool_token_manager(creds) ==
    AssignPoolIds(creds, MaxOf({creds[k].id : k \in 1..Len(creds)}) + 1)

\* MultiTokenManager::new: every entry starts with failure_count 0, enabled
\* and without a reason
FreshEntry == [failure_count |-> 0, disabled |-> FALSE, disabled_reason |-> "None"]

pool_token_manager_runtime(creds) == [k \in 1..Len(creds) |-> FreshEntry]

\* reload builds the managers of the pools one after the other; a manager
\* that has assigned an id persists its own credentials to the file.
RECURSIVE reload_file(_, _, _)
reload_file(file, all_credentials, order) ==
    IF order = <<>> THEN file
    ELSE LET creds == credentials_by_pool(all_credentials, order[1])
             has_new_ids == \E k \in 1..Len(creds) : creds[k].id = NoId
         IN  reload_file(IF has_new_ids THEN pool_token_manager(creds) ELSE file,
                         all_credentials, Tail(order))

\* PoolsConfig::pools: the pools in the order of pools.json
PoolSequences == {<<DEFAULT_POOL_ID, "premium">>, <<"premium", DEFAULT_POOL_ID>>}

\* PoolManager::reload, the credentials: the file is read once and every
\* pool gets a manager of the credentials that name it.
reload_credentials(order) ==
    LET all_credentials == into_sorted_credentials(pool_credentials_file)
    IN  /\ pool_token_managers' = [p \in CredentialPools |->
               pool_token_manager(credentials_by_pool(all_credentials, p))]
        /\ pool_credentials_file' = reload_file(pool_credentials_file, all_credentials, order)
        /\ pool_runtime' = [p \in CredentialPools |->
               pool_token_manager_runtime(credentials_by_pool(all_credentials, p))]
        /\ pool_session_map' = [p \in CredentialPools |-> {}]
        /\ UNCHANGED <<now, beside_shared>>

\* persist_credentials of the manager of a pool: the credentials of its own
\* entries.
pool_persist_credentials(managers, pool_id) == managers[pool_id]

\* set_priority on the manager of a pool
pool_set_priority(pool_id, i, priority) ==
    /\ \E k \in 1..Len(pool_token_managers[pool_id]) : pool_token_managers[pool_id][k].id = i
    /\ pool_token_managers' = [pool_token_managers EXCEPT ![pool_id] =
          [k \in 1..Len(@) |-> IF @[k].id = i THEN [@[k] EXCEPT !.priority = priority]
                               ELSE @[k]]]
    /\ pool_credentials_file' = pool_persist_credentials(pool_token_managers', pool_id)
    /\ UNCHANGED <<pool_runtime, pool_session_map, now, beside_shared>>

\* A token refresh on the manager of a pool: the new token is persisted.
pool_refresh_token(pool_id, i, tok) ==
    /\ \E k \in 1..Len(pool_token_managers[pool_id]) : pool_token_managers[pool_id][k].id = i
    /\ pool_token_managers' = [pool_token_managers EXCEPT ![pool_id] =
          [k \in 1..Len(@) |-> IF @[k].id = i THEN [@[k] EXCEPT !.access_token = tok]
                               ELSE @[k]]]
    /\ pool_credentials_file' = pool_persist_credentials(pool_token_managers', pool_id)
    /\ UNCHANGED <<pool_runtime, pool_session_map, now, beside_shared>>

\* No pools, no credentials
SharedIdle ==
    /\ pool_token_managers = [p \in CredentialPools |-> <<>>]
    /\ pool_credentials_file = <<>>
    /\ pool_runtime = [p \in CredentialPools |-> <<>>]
    /\ pool_session_map = [p \in CredentialPools |-> {}]

----------------------------------------------------------------------------
(* The retries of handle_stream_request and handle_non_stream_request *)

MAX_HANDLER_RETRIES == 2
HandlerSleepMs == 500     \* tokio::time::sleep(Duration::from_millis(500))
MaxRequests == 3          \* requests handled in a run

\* What the error message of a failed upstream call holds: a marker of the
\* list of is_retryable, or another status.
ErrorMessages ==
    {"502", "503", "504", "Bad Gateway", "Service Unavailable", "Gateway Timeout",
     "connection", "timeout", "500", "400", "429"}

\* is_retryable: the message contains one of the markers
is_retryable(error_msg) ==
    error_msg \in {"502", "503", "504", "Bad Gateway", "Service Unavailable",
                   "Gateway Timeout", "connection", "timeout"}

\* Mutant: the loop goes on while attempt <= MAX_HANDLER_RETRIES.
may_retry_once_more(attempt) == attempt <= MAX_HANDLER_RETRIES

\* attempt + 1 < MAX_HANDLER_RETRIES
may_retry(attempt) == attempt + 1 < MAX_HANDLER_RETRIES

\* pc: where the handler is; attempt: the loop variable; calls: upstream
\* calls made; slept: the milliseconds slept; responses: final responses
\* returned; status: of the response; last_error: the message of the last
\* failure; requests: the requests started.
NoHandler ==
    [pc |-> "idle", stream |-> FALSE, attempt |-> 0, calls |-> 0, slept |-> 0,
     responses |-> 0, status |-> "None", last_error |-> "None", requests |-> 0]

\* A request reaches handle_stream_request or handle_non_stream_request.
handle_request(is_stream) ==
    /\ handler.pc \in {"idle", "done"}
    /\ handler.requests < MaxRequests
    /\ handler' = [NoHandler EXCEPT !.pc = "call", !.stream = is_stream,
                                    !.requests = handler.requests + 1]
    /\ UNCHANGED <<now, beside_handler>>

\* return of a response
Respond(h, status) ==
    [h EXCEPT !.pc = "done", !.status = status, !.responses = @ + 1]

\* sleep(500 ms); continue
SleepAndContinue(h) == [h EXCEPT !.pc = "sleep"]

\* call_api_stream_with_session, call_api_with_session: Ok(resp)
call_api_ok ==
    /\ handler.pc = "call"
    /\ handler' = LET h == [handler EXCEPT !.calls = @ + 1]
                  IN  IF h.stream THEN Respond(h, "OK") ELSE [h EXCEPT !.pc = "read"]
    /\ UNCHANGED <<now, beside_handler>>

\* call_api_stream_with_session, call_api_with_session: Err(e)
call_api_err(error_msg) ==
    /\ handler.pc = "call"
    /\ handler' = LET h == [handler EXCEPT !.calls = @ + 1, !.last_error = error_msg]
                  IN  IF is_retryable(error_msg) /\ may_retry(h.attempt)
                      THEN SleepAndContinue(h)
                      ELSE Respond(h, "BAD_GATEWAY")
    /\ UNCHANGED <<now, beside_handler>>

\* The sleep is over: the next iteration of the loop.
sleep_over ==
    /\ handler.pc = "sleep"
    /\ handler' = [handler EXCEPT !.pc = "call", !.attempt = @ + 1,
                                  !.slept = @ + HandlerSleepMs]
    /\ UNCHANGED <<now, beside_handler>>

\* response.bytes(): Ok, then build_non_stream_response
bytes_ok ==
    /\ handler.pc = "read"
    /\ handler' = Respond(handler, "OK")
    /\ UNCHANGED <<now, beside_handler>>

\* response.bytes(): Err
bytes_err ==
    /\ handler.pc = "read"
    /\ handler' = LET h == [handler EXCEPT !.last_error = "connection"]
                  IN  IF may_retry(h.attempt) THEN SleepAndContinue(h)
                      ELSE Respond(h, "BAD_GATEWAY")
    /\ UNCHANGED <<now, beside_handler>>

HandlerIdle == handler = NoHandler

----------------------------------------------------------------------------
(* The locks of MultiTokenManager: entries and current_id (parking_lot
   mutexes), scheduling_mode (a parking_lot mutex) and the refresh lock of a
   credential (a tokio mutex, taken with .await).  An operation is the
   sequence of its lock, unlock and await steps, in the order of the code. *)

NumTasks == 2
Tasks == 1..NumTasks
NoTask == 0
Locks == {"entries", "current_id", "scheduling_mode", "refresh"}

L(l) == <<"lock", l>>
LA(l) == <<"lock_await", l>>
U(l) == <<"unlock", l>>
Await == <<"await", "refresh_token">>

\* persist_credentials: the entries are collected under the lock, the file
\* is written without it
persist_steps == <<L("entries"), U("entries")>>

\* let entries = self.entries.lock(); let current_id = self.current_id.lock();
\* the guards are dropped in the reverse order
entries_then_current_id == <<L("entries"), L("current_id"), U("current_id"), U("entries")>>

\* snapshot: entries, *current_id.lock(), *scheduling_mode.lock()
snapshot_steps ==
    <<L("entries"), L("current_id"), U("current_id"),
      L("scheduling_mode"), U("scheduling_mode"), U("entries")>>

\* acquire_context_internal: the mode is read, then the selection under
\* entries reads or writes current_id
select_steps ==
    <<L("scheduling_mode"), U("scheduling_mode")>> \o entries_then_current_id

\* try_ensure_token when the token has to be refreshed and the refresh succeeds
try_ensure_token_steps ==
    <<LA("refresh"), L("entries"), U("entries"), Await, L("entries"), U("entries")>>
        \o persist_steps \o <<U("refresh")>>

\* try_ensure_token when the refresh fails, and the Err arm of
\* acquire_context_internal that disables the credential
refresh_failed_steps ==
    <<LA("refresh"), L("entries"), U("entries"), Await, U("refresh"),
      L("entries"), U("entries")>>

\* select_highest_priority
select_highest_priority_steps == entries_then_current_id

\* Mutant: delete_credential reads current_id before it locks entries.
delete_credential_steps_current_first ==
    <<L("current_id"), L("entries"), U("entries"), U("current_id")>>
        \o select_highest_priority_steps \o entries_then_current_id \o persist_steps

\* delete_credential: the removal, select_highest_priority, the reset of
\* current_id when nothing is left, persist_credentials
delete_credential_steps ==
    entries_then_current_id \o select_highest_priority_steps
        \o entries_then_current_id \o persist_steps

Operations ==
    {"acquire_context", "acquire_context_retry", "report_success", "report_failure",
     "report_quota_exhausted", "snapshot", "set_disabled", "set_priority",
     "reset_and_enable", "add_credential", "delete_credential", "set_scheduling_mode"}

LockSteps(op) ==
    CASE op = "acquire_context" -> select_steps \o try_ensure_token_steps
      [] op = "acquire_context_retry" ->
             select_steps \o refresh_failed_steps \o entries_then_current_id
      [] op = "report_success" -> <<L("entries"), U("entries")>>
      [] op = "report_failure" -> entries_then_current_id
      [] op = "report_quota_exhausted" -> entries_then_current_id
      [] op = "snapshot" -> snapshot_steps
      [] op = "set_disabled" -> <<L("entries"), U("entries")>> \o persist_steps
      [] op = "set_priority" ->
             <<L("entries"), U("entries")>> \o select_highest_priority_steps \o persist_steps
      [] op = "reset_and_enable" -> <<L("entries"), U("entries")>> \o persist_steps
      [] op = "add_credential" ->
             <<Await, L("entries"), U("entries"), L("entries"), U("entries")>> \o persist_steps
      [] op = "delete_credential" -> delete_credential_steps
      [] op = "set_scheduling_mode" -> <<L("scheduling_mode"), U("scheduling_mode")>>
      [] OTHER -> <<>>

NoOperation == [op |-> "idle", pc |-> 1]

Busy(t) == task[t].op # "idle"

\* The step the task is at
NextStep(t) == LockSteps(task[t].op)[task[t].pc]

\* The task after its step: the operation returns after the last one.
Advance(t) ==
    IF task[t].pc = Len(LockSteps(task[t].op))
    THEN [task EXCEPT ![t] = NoOperation]
    ELSE [task EXCEPT ![t].pc = @ + 1]

\* A task calls an operation.
call_operation(t, op) ==
    /\ ~Busy(t)
    /\ task' = [task EXCEPT ![t] = [op |-> op, pc |-> 1]]
    /\ UNCHANGED <<lock_holder, now, beside_lock>>

\* Mutex::lock of parking_lot (the thread blocks) and of tokio (the task
\* is suspended): granted when the lock is free.
lock(t) ==
    /\ Busy(t)
    /\ NextStep(t)[1] \in {"lock", "lock_await"}
    /\ lock_holder[NextStep(t)[2]] = NoTask
    /\ lock_holder' = [lock_holder EXCEPT ![NextStep(t)[2]] = t]
    /\ task' = Advance(t)
    /\ UNCHANGED <<now, beside_lock>>

\* The guard is dropped.
unlock(t) ==
    /\ Busy(t)
    /\ NextStep(t)[1] = "unlock"
    /\ lock_holder' = [lock_holder EXCEPT ![NextStep(t)[2]] = NoTask]
    /\ task' = Advance(t)
    /\ UNCHANGED <<now, beside_lock>>

\* refresh_token(...).await is answered.
await_over(t) ==
    /\ Busy(t)
    /\ NextStep(t)[1] = "await"
    /\ task' = Advance(t)
    /\ UNCHANGED <<lock_holder, now, beside_lock>>

LocksIdle ==
    /\ lock_holder = [l \in Locks |-> NoTask]
    /\ task = [t \in Tasks |-> NoOperation]

----------------------------------------------------------------------------
(* The disk under the credentials file *)

\* Writes of the credentials file start to fail (the disk is full, the
\* file is read-only) or succeed again.
fs_change(writable) ==
    /\ file_writable # writable
    /\ file_writable' = writable
    /\ UNCHANGED <<now, beside_disk>>

\* set_disabled, set_priority, reset_and_enable: what they return
admin_result(es, i) ==
    IF ~HasEntry(es, i) THEN "NotFound" ELSE persist_credentials_result

\* add_credential once its trial refresh has succeeded: what it returns
add_credential_result == persist_credentials_result

\* delete_credential with persist_credentials()?: what it returns
delete_credential_persist_result(es, i) ==
    IF delete_credential_result(es, i) # "Ok" THEN delete_credential_result(es, i)
    ELSE persist_credentials_result

DiskIdle == file_writable = TRUE

GatewayIdle == PoolsIdle /\ AddsIdle /\ CsrfIdle /\ RateIdle /\ RelayIdle /\ NonStreamIdle /\ HealthIdle /\ ApiKeysIdle /\ SharedIdle /\ HandlerIdle /\ LocksIdle /\ DiskIdle

----------------------------------------------------------------------------
(* Initial states: MultiTokenManager::new on a credentials file *)

\* An expiry beyond the end of every run.
FarExpiry == 60

HistInit ==
    [streak |-> [i \in Ids |-> 0],
     removed |-> {},
     result |-> "None",
     total |-> [t \in Calls |-> 0],
     healed_in |-> [t \in Calls |-> FALSE],
     failed |-> [t \in Calls |-> NoId],
     writer |-> NoPoolId,
     last_op |-> "other",
     quota_reported |-> NoId,
     deleted |-> [id |-> NoId, result |-> "None"],
     revoked |-> [v \in KeyValues |-> FALSE],
     run |-> [i \in Ids |-> 0],
     quota_marked |-> [i \in Ids |-> FALSE],
     manual_marked |-> [i \in Ids |-> FALSE],
     healed_at |-> [t \in Calls |-> -1],
     healed_beside |-> [t \in Calls |-> FALSE],
     batch |-> NoId,
     clean |-> FALSE,
     good |-> NoToken,
     reqs |-> [t \in Calls |-> FALSE],
     started |-> 0,
     assigned |-> [i \in Ids |-> 0],
     steady |-> TRUE,
     stable |-> TRUE,
     rets |-> [s \in Sessions |-> {}],
     solo |-> [s \in Sessions |-> NoId],
     exp |-> [t \in Calls |-> {}],
     was_disabled |-> [t \in Calls |-> NoId],
     avoided |-> [t \in Calls |-> NoId],
     accepted |-> [k \in Tokens |-> 0],
     expiry |-> [k \in Tokens |-> NoExpiry],
     fresh |-> [v \in Validations |-> FALSE],
     admitted |-> [k \in ApiKeys |-> [m \in Minutes |-> 0]],
     mutated |-> FALSE,
     admin |-> {}]

\* The credential manager as MultiTokenManager::new builds it
ManagerNew(file, mode) ==
    /\ entries = new_entries(into_sorted_credentials(file))
    /\ current_id = new_current_id(entries)
    /\ session_map = [s \in Sessions |-> NoId]
    /\ round_robin_counter = 0
    /\ scheduling_mode = mode
    /\ refresh_locks = [i \in Ids |-> 0]
    /\ now = 0
    /\ issued = 0
    /\ calls = [t \in Calls |-> IdleCall]
    /\ credentials_file = new_credentials_file(file)

InitIn(file, mode) ==
    /\ ManagerNew(file, mode)
    /\ GatewayIdle
    /\ hist = HistInit

InitFrom(file) == InitIn(file, "RoundRobin")

----------------------------------------------------------------------------
(* SpecStreak: failure accounting, one call of acquire_context at a time *)

Inc(n, cap) == IF n < cap THEN n + 1 ELSE cap

\* Entry i is disabled before the step and enabled after it.
Reenabled(i) ==
    /\ HasEntry(entries, i) /\ EntryOf(entries, i).disabled
    /\ HasEntry(entries', i) /\ ~EntryOf(entries', i).disabled

AllAutoDisabled(es) ==
    /\ es # <<>>
    /\ \A k \in 1..Len(es) : es[k].disabled /\ AutoDisabled(es[k])

\* Two credentials whose tokens stay valid for the whole run.
FileFresh ==
    <<FileCredential(NoId, 0, 1, FarExpiry), FileCredential(NoId, 1, 2, FarExpiry)>>

\* One credential still to be refreshed, one with a valid token.
FileMixed ==
    <<FileCredential(NoId, 0, NoToken, NoExpiry), FileCredential(NoId, 1, 2, FarExpiry)>>

\* History for the failure threshold: `streak` counts the report_failure
\* calls on a credential since its last report_success; `run` is also
\* restarted by whatever else sets failure_count to 0 (an admin enable or
\* reset, self-healing).
ObserveStreak(op, i) ==
    hist' = [hist EXCEPT
        !.streak = [j \in Ids |->
            IF j = i /\ op = "report_failure" THEN Inc(@[j], StreakCap)
            ELSE IF j = i /\ op = "report_success" THEN 0
            ELSE @[j]],
        !.run = [j \in Ids |->
            IF j = i /\ op = "report_failure" THEN Inc(@[j], StreakCap)
            ELSE IF j = i /\ op \in {"report_success", "enable", "reset_and_enable"} THEN 0
            ELSE IF op = "select" /\ Reenabled(j) THEN 0
            ELSE @[j]]]

OneCall == {1}

NextStreak ==
    \/ \E t \in OneCall : Start(t, NoSession) /\ UNCHANGED hist
    \/ \E t \in OneCall : Select(t) /\ ObserveStreak("select", NoId)
    \/ \E t \in OneCall : Bind(t) /\ UNCHANGED hist
    \/ \E i \in Ids : report_success(i) /\ ObserveStreak("report_success", i)
    \/ \E i \in Ids : report_failure(i) /\ ObserveStreak("report_failure", i)
    \/ \E i \in Ids : report_quota_exhausted(i) /\ UNCHANGED hist
    \/ \E i \in Ids : set_disabled(i, TRUE) /\ UNCHANGED hist
    \/ \E i \in Ids : set_disabled(i, FALSE) /\ ObserveStreak("enable", i)
    \/ \E i \in Ids : reset_and_enable(i) /\ ObserveStreak("reset_and_enable", i)

SpecStreak == InitFrom(FileFresh) /\ [][NextStreak]_vars

----------------------------------------------------------------------------
(* C2: the failure threshold *)

Disabled(es, i) == HasEntry(es, i) /\ EntryOf(es, i).disabled
Enabled(es, i) == HasEntry(es, i) /\ ~EntryOf(es, i).disabled
ReasonOf(es, i) == EntryOf(es, i).disabled_reason

\* What a report_failure(i) step must do when it is the n-th of a row:
\* from the third on the credential is disabled with TooManyFailures, and
\* an enabled credential becomes disabled exactly at the third.
ThresholdStep(i, n) ==
    /\ n >= MAX_FAILURES_PER_CREDENTIAL
          => Disabled(entries', i) /\ ReasonOf(entries', i) = "TooManyFailures"
    /\ Enabled(entries, i)
          => (Disabled(entries', i) <=> n = MAX_FAILURES_PER_CREDENTIAL)

\* C2 as stated: three report_failure(id) calls with no report_success(id)
\* in between leave the credential disabled with TooManyFailures, and the
\* call that disables an enabled credential is the third of the row.
C2_AsStated ==
    [][\A i \in Ids :
          report_failure(i) /\ ObserveStreak("report_failure", i)
              => ThresholdStep(i, hist'.streak[i])]_vars

\* C2 amended: the row is also restarted by set_disabled(id, false),
\* reset_and_enable(id) and self-healing, which set failure_count to 0 as
\* report_success does; report_success leaves failure_count at 0.
C2_Threshold ==
    [][\A i \in Ids :
          /\ report_failure(i) /\ ObserveStreak("report_failure", i)
                => ThresholdStep(i, hist'.run[i])
          /\ report_success(i) /\ ObserveStreak("report_success", i)
                => EntryOf(entries', i).failure_count = 0 /\ hist'.run[i] = 0]_vars

\* A credential that its third failure in a row has disabled with
\* TooManyFailures.
C2_Witness ==
    \E i \in Ids :
        /\ Disabled(entries, i) /\ ReasonOf(entries, i) = "TooManyFailures"
        /\ hist.run[i] = 3 /\ hist.streak[i] = 3
        /\ EntryOf(entries, i).failure_count = 3

----------------------------------------------------------------------------
(* SpecHeal: disabling and self-healing, one call of acquire_context at a  *)
(* time, with credentials reported and administered while it runs          *)

\* History for self-healing: quota_marked[i] from the report_quota_exhausted(i)
\* that disabled i, manual_marked[i] from set_disabled(i, true), both until an
\* admin operation enables i; healed_at[t] is the tried_count at which call t
\* found every credential auto-disabled (-1: it did not); healed_beside[t]
\* tells that the last selection of call t self-healed although a credential
\* was disabled with Manual or QuotaExceeded.
ObserveHeal(op, i, t) ==
    hist' = [hist EXCEPT
        !.quota_marked = [j \in Ids |->
            IF j = i /\ op = "report_quota_exhausted" /\ Enabled(entries, i) THEN TRUE
            ELSE IF j = i /\ op = "enable" THEN FALSE
            ELSE @[j]],
        !.manual_marked = [j \in Ids |->
            IF j = i /\ op = "disable" THEN TRUE
            ELSE IF j = i /\ op = "enable" THEN FALSE
            ELSE @[j]],
        !.healed_at = [u \in Calls |->
            IF u = t /\ op = "start" THEN -1
            ELSE IF u = t /\ op = "select" /\ AllAutoDisabled(entries)
                 THEN calls[t].tried_count
            ELSE @[u]],
        !.healed_beside = [u \in Calls |->
            IF u = t /\ op = "start" THEN FALSE
            ELSE IF u = t /\ op = "select"
                 THEN \E k \in 1..Len(entries) :
                         /\ entries[k].disabled /\ ~entries'[k].disabled
                         /\ \E j \in 1..Len(entries) :
                               /\ entries[j].disabled
                               /\ entries[j].disabled_reason \in {"Manual", "QuotaExceeded"}
            ELSE @[u]]]

NextHeal ==
    \/ \E t \in OneCall : Start(t, NoSession) /\ ObserveHeal("start", NoId, t)
    \/ \E t \in OneCall : Select(t) /\ ObserveHeal("select", NoId, t)
    \/ \E t \in OneCall : AcquireLock(t) /\ UNCHANGED hist
    \/ \E t \in OneCall : RefreshOk(t, 15) /\ UNCHANGED hist
    \/ \E t \in OneCall : RefreshTransient(t) /\ UNCHANGED hist
    \/ \E t \in OneCall : RefreshUnauthorized(t) /\ UNCHANGED hist
    \/ \E t \in OneCall : Bind(t) /\ UNCHANGED hist
    \/ \E i \in Ids : report_success(i) /\ UNCHANGED hist
    \/ \E i \in Ids : report_failure(i) /\ UNCHANGED hist
    \/ \E i \in Ids : report_quota_exhausted(i)
                         /\ ObserveHeal("report_quota_exhausted", i, 0)
    \/ \E i \in Ids : set_disabled(i, TRUE) /\ ObserveHeal("disable", i, 0)
    \/ \E i \in Ids : set_disabled(i, FALSE) /\ ObserveHeal("enable", i, 0)
    \/ \E i \in Ids : reset_and_enable(i) /\ ObserveHeal("enable", i, 0)

SpecHeal == InitFrom(FileMixed) /\ [][NextHeal]_vars

----------------------------------------------------------------------------
(* C3: quota exhaustion is terminal *)

\* C3: a credential that report_quota_exhausted(id) has disabled stays
\* disabled, whatever acquire_context, report_failure and report_success
\* calls follow, until set_disabled(id, false) or reset_and_enable(id).
C3_QuotaTerminal ==
    \A i \in Ids : hist.quota_marked[i] => Disabled(entries, i)

----------------------------------------------------------------------------
(* C4: a manual disable is not self-healed *)

\* C4: a credential disabled by set_disabled(id, true) stays disabled,
\* whatever acquire_context and report_* calls follow, until an admin
\* operation enables it.
C4_ManualTerminal ==
    \A i \in Ids : hist.manual_marked[i] => Disabled(entries, i)

----------------------------------------------------------------------------
(* C5: self-healing when every credential is auto-disabled *)

AllHealed(es) ==
    \A k \in 1..Len(es) :
        ~es[k].disabled /\ es[k].disabled_reason = NoReason /\ es[k].failure_count = 0

----------------------------------------------------------------------------
(* C6: self-healing next to a Manual or QuotaExceeded disable *)

SomeTerminal(es) ==
    \E k \in 1..Len(es) :
        es[k].disabled /\ es[k].disabled_reason \in {"Manual", "QuotaExceeded"}

SomeAutoDisabled(es) ==
    \E k \in 1..Len(es) : es[k].disabled /\ AutoDisabled(es[k])

----------------------------------------------------------------------------
(* SpecRefresh: concurrent calls, stale tokens, the refresh endpoint and   *)
(* the clock                                                               *)

\* The first credential has no token, or a token that expires within 10
\* minutes; the token of the second becomes stale as the clock advances.
FilesStale ==
    {<<FileCredential(NoId, 0, tok1[1], tok1[2]), FileCredential(NoId, 1, 2, 15)>> :
        tok1 \in {<<NoToken, NoExpiry>>, <<1, 10>>}}

Waiting(c, i) == c.pc \in {"lock", "refresh"} /\ c.id = i

\* Is the response a token that is still not expiring soon once stored?
LongLived(expires_in) == expires_in # NoExpiry /\ expires_in > ExpiringSoonMinutes

\* History for the refresh: batch is the credential for which every call
\* waits (for its refresh lock, or for the response) at the same time; reqs[t]
\* tells whether call t has sent a refresh request for the credential it
\* selected; clean holds as long as, since the batch formed, no refresh
\* failed or brought a short-lived token and the clock did not advance; good
\* is the token of the long-lived response.
ObserveRefresh(op, t, expires_in) ==
    LET formed == \E i \in Ids : \A u \in Calls : Waiting(calls'[u], i)
        spoiled == \/ op \in {"failure", "tick"}
                   \/ op = "response" /\ ~LongLived(expires_in)
    IN  hist' = [hist EXCEPT
            !.batch = IF op = "start" THEN NoId
                      ELSE IF @ = NoId /\ formed THEN calls'[1].id
                      ELSE @,
            !.clean = IF hist.batch = NoId THEN formed /\ ~spoiled
                      ELSE @ /\ ~spoiled,
            !.good = IF op = "response" /\ LongLived(expires_in) THEN NewToken(issued)
                     ELSE IF hist.batch = NoId /\ formed THEN NoToken
                     ELSE @,
            !.reqs = [u \in Calls |->
                IF u = t /\ op \in {"start", "select"} THEN FALSE
                ELSE IF u = t /\ op = "lock" THEN calls'[t].pc = "refresh"
                ELSE @[u]]]

NextRefresh ==
    \/ \E t \in Calls : Start(t, NoSession) /\ ObserveRefresh("start", t, NoExpiry)
    \/ \E t \in Calls : Select(t) /\ ObserveRefresh("select", t, NoExpiry)
    \/ \E t \in Calls : AcquireLock(t) /\ ObserveRefresh("lock", t, NoExpiry)
    \/ \E t \in Calls, e \in ExpiresIn : RefreshOk(t, e) /\ ObserveRefresh("response", t, e)
    \/ \E t \in Calls : RefreshTransient(t) /\ ObserveRefresh("failure", t, NoExpiry)
    \/ \E t \in Calls : RefreshUnauthorized(t) /\ ObserveRefresh("failure", t, NoExpiry)
    \/ \E t \in Calls : Bind(t) /\ ObserveRefresh("bind", t, NoExpiry)
    \/ Tick /\ ObserveRefresh("tick", 0, NoExpiry)

SpecRefresh == (\E file \in FilesStale : InitFrom(file)) /\ [][NextRefresh]_vars

----------------------------------------------------------------------------
(* C7: one refresh for concurrent calls *)

Requests == {t \in Calls : hist.reqs[t]}

InFlight(i) == {t \in Calls : calls[t].pc = "refresh" /\ calls[t].id = i}

Returned(c) == c.pc \in {"bind", "done"}

----------------------------------------------------------------------------
(* C10: the returned token is not expired *)

----------------------------------------------------------------------------
(* SpecRR: new sessions in round_robin mode *)

AvailableIds(es) == {es[k].id : k \in {j \in 1..Len(es) : ~es[j].disabled}}

\* History for the distribution: started counts the sessions (each new, they
\* start in the order 1, 2, ...); assigned[i] counts the sessions bound to
\* credential i; stable holds while the set of available credentials has
\* not changed; steady holds while no call has had to try a further
\* credential and nothing has reset round_robin_counter.
ObserveRR(op, t) ==
    hist' = [hist EXCEPT
        !.started = IF op = "start" THEN @ + 1 ELSE @,
        !.assigned = [i \in Ids |->
            IF op = "bind" /\ calls[t].ctx.id = i THEN @[i] + 1 ELSE @[i]],
        !.stable = @ /\ AvailableIds(entries') = AvailableIds(entries),
        !.steady = /\ @
                   /\ op # "reset"
                   /\ t \in Calls => calls'[t].tried_count = calls[t].tried_count]

NextRR ==
    \/ \E t \in Calls :
          /\ hist.started < NumSessions
          /\ Start(t, hist.started + 1)
          /\ ObserveRR("start", t)
    \/ \E t \in Calls : Select(t) /\ ObserveRR("select", t)
    \/ \E t \in Calls : AcquireLock(t) /\ ObserveRR("lock", t)
    \/ \E t \in Calls : RefreshOk(t, 15) /\ ObserveRR("response", t)
    \/ \E t \in Calls : RefreshTransient(t) /\ ObserveRR("failure", t)
    \/ \E t \in Calls : Bind(t) /\ ObserveRR("bind", t)
    \/ \E i \in Ids : set_disabled(i, TRUE) /\ ObserveRR("reset", 0)
    \/ \E i \in Ids : set_disabled(i, FALSE) /\ ObserveRR("reset", 0)

SpecRR == InitFrom(FileMixed) /\ [][NextRR]_vars

----------------------------------------------------------------------------
(* C8: round-robin distribution of new sessions *)

Quiescent == \A t \in Calls : calls[t].pc \in {"idle", "done", "failed"}

RECURSIVE SumOver(_, _)
SumOver(f, S) ==
    IF S = {} THEN 0
    ELSE LET x == CHOOSE y \in S : TRUE IN f[x] + SumOver(f, S \ {x})

\* Each of the k available credentials has within 1 of n / k of the n
\* assigned sessions, and exactly n / k when k divides n.
Balanced ==
    LET k == Cardinality(AvailableIds(entries))
        n == SumOver(hist.assigned, Ids)
    IN  \A i \in AvailableIds(entries) :
            /\ hist.assigned[i] * k - n <= k
            /\ n - hist.assigned[i] * k <= k
            /\ n % k = 0 => hist.assigned[i] * k = n

----------------------------------------------------------------------------
(* SpecPrio: selection by priority over credentials loaded with ids,      *)
(* added, deleted and re-prioritised                                       *)

\* Files of two credentials with ids 1 and 2 in either order, and any
\* priorities.
FilesPrio ==
    {<<FileCredential(ids[1], p[1], ids[1], FarExpiry),
       FileCredential(ids[2], p[2], ids[2], FarExpiry)>> :
        ids \in {<<1, 2>>, <<2, 1>>}, p \in Priorities \X Priorities}

NextPrio ==
    \/ \E t \in OneCall : Start(t, 1) /\ UNCHANGED hist
    \/ \E t \in OneCall : Select(t) /\ UNCHANGED hist
    \/ \E t \in OneCall : Bind(t) /\ UNCHANGED hist
    \/ Evict(1) /\ UNCHANGED hist
    \/ \E i \in Ids, p \in Priorities : set_priority(i, p) /\ UNCHANGED hist
    \/ \E i \in Ids, d \in BOOLEAN : set_disabled(i, d) /\ UNCHANGED hist
    \/ \E p \in Priorities : add_credential(p, 15) /\ UNCHANGED hist
    \/ \E i \in Ids : delete_credential(i) /\ UNCHANGED hist

SpecPrio == (\E file \in FilesPrio : InitIn(file, "PriorityFill")) /\ [][NextPrio]_vars

----------------------------------------------------------------------------
(* C9: priority_fill picks the lowest priority value *)

\* The selection step of a call in priority_fill mode for a session without
\* a cached binding, which ends with a credential picked.
PicksForNewSession(t) ==
    /\ Select(t)
    /\ calls[t].mode = "PriorityFill"
    /\ calls[t].session # NoSession
    /\ calls[t].cached_id = NoId
    /\ calls'[t].pc \in {"lock", "bind"}

\* Entry k is available and no available entry has a lower priority value.
LowestPriority(es, k) ==
    /\ ~es[k].disabled
    /\ \A j \in 1..Len(es) :
          ~es[j].disabled => es[j].credentials.priority >= es[k].credentials.priority

Ties(es, k) ==
    {j \in 1..Len(es) :
        ~es[j].disabled /\ es[j].credentials.priority = es[k].credentials.priority}

----------------------------------------------------------------------------
(* SpecSticky: sessions acquiring again and again, concurrently, in either *)
(* scheduling mode, while credentials are disabled and enabled and         *)
(* bindings evicted                                                        *)

StickySessions == {1, 2}

InProgress(c) == c.pc \in {"select", "lock", "refresh", "bind"}

\* History for sticky sessions.  rets[s] are the ids returned for session s
\* that have stayed enabled since, with no eviction of s and no failed token
\* acquisition in a call of s since; solo[s] is such an id returned at a
\* moment when no other call of s was in progress (NoId: none); exp[t] is
\* what rets held for the session of call t when t began, kept up likewise.
ObserveSticky(op, t, sid) ==
    LET s == IF op = "evict" THEN sid
             ELSE IF t \in Calls THEN calls'[t].session ELSE NoSession
        broken == \/ op = "evict"
                  \/ t \in Calls /\ calls'[t].tried_count > calls[t].tried_count
        StillEnabled(S) == {i \in S : Enabled(entries', i)}
        alone == \A u \in Calls \ {t} : ~(InProgress(calls[u]) /\ calls[u].session = s)
        returns == op = "bind" /\ s # NoSession /\ Enabled(entries, calls[t].ctx.id)
    IN  hist' = [hist EXCEPT
            !.rets = [x \in Sessions |->
                IF x = s /\ broken THEN {}
                ELSE IF x = s /\ returns THEN StillEnabled(@[x] \cup {calls[t].ctx.id})
                ELSE StillEnabled(@[x])],
            !.solo = [x \in Sessions |->
                IF x = s /\ broken THEN NoId
                ELSE IF x = s /\ returns /\ alone THEN calls[t].ctx.id
                ELSE IF Enabled(entries', @[x]) THEN @[x]
                ELSE NoId],
            !.exp = [u \in Calls |->
                IF u = t /\ op = "start"
                THEN IF s = NoSession THEN {} ELSE StillEnabled(hist.rets[s])
                ELSE IF u = t /\ op = "bind" THEN {}
                ELSE IF s # NoSession /\ calls[u].session = s /\ broken THEN {}
                ELSE StillEnabled(@[u])]]

\* The sessions being alike, call t serves the sessions up to t only.
NextSticky ==
    \/ \E t \in Calls, sid \in StickySessions :
          /\ sid <= t
          /\ Start(t, sid)
          /\ ObserveSticky("start", t, sid)
    \/ \E t \in Calls : Select(t) /\ ObserveSticky("select", t, NoSession)
    \/ \E t \in Calls : AcquireLock(t) /\ ObserveSticky("lock", t, NoSession)
    \/ \E t \in Calls : RefreshOk(t, 15) /\ ObserveSticky("response", t, NoSession)
    \/ \E t \in Calls : RefreshTransient(t) /\ ObserveSticky("failure", t, NoSession)
    \/ \E t \in Calls : Bind(t) /\ ObserveSticky("bind", t, NoSession)
    \/ \E sid \in StickySessions : Evict(sid) /\ ObserveSticky("evict", 0, sid)
    \/ \E i \in Ids, d \in BOOLEAN : set_disabled(i, d) /\ ObserveSticky("admin", 0, NoSession)

SpecSticky == (\E mode \in Modes : InitIn(FileMixed, mode)) /\ [][NextSticky]_vars

----------------------------------------------------------------------------
(* C1: sticky sessions *)

\* C1 as stated: a call of a session returns the id that every earlier
\* return of that session gave, if that id has stayed enabled, the session's
\* binding has not been evicted and no token acquisition has failed.
C1_AsStated ==
    [][\A t \in Calls :
          Bind(t) /\ calls[t].session # NoSession
              => \A c \in hist.exp[t] : calls[t].ctx.id = c]_vars

\* C1 amended: ... the id that an earlier call of the session returned at a
\* moment when no other call of that session was in progress.
C1_Sticky ==
    [][\A t \in Calls :
          Bind(t) /\ calls[t].session # NoSession
                  /\ hist.solo[calls[t].session] # NoId
              => calls[t].ctx.id = hist.solo[calls[t].session]]_vars

\* A call that found its session bound is about to return the id that an
\* earlier call of the session returned, while round robin would now pick
\* another credential.
C1_Witness ==
    \E t \in Calls :
        /\ calls[t].pc = "bind"
        /\ calls[t].session # NoSession
        /\ calls[t].cached_id # NoId
        /\ calls[t].ctx.id = hist.solo[calls[t].session]
        /\ scheduling_mode = "RoundRobin"
        /\ select_by_round_robin(entries, round_robin_counter) # calls[t].ctx.id

----------------------------------------------------------------------------
(* SpecPools: the pool manager under create_pool, update_pool, delete_pool *)
(* and reload, the credentials of the pools coming and going, and requests *)
(* of keys with every kind of binding                                      *)

\* pools.json as PoolManager::new may find it: any of the pools missing
\* (the default pool too), enabled or disabled.
PoolFiles ==
    {f \in [PoolIds -> {NoPool, Pool(TRUE, 0), Pool(FALSE, 1)}] : ~f["backup"].exists}

\* main: PoolManager::new succeeded and the pools are those of reload, or it
\* failed and the server runs without a pool manager.
InitPools ==
    /\ ManagerNew(<<>>, "RoundRobin")
    /\ AddsIdle /\ CsrfIdle /\ RateIdle /\ RelayIdle /\ NonStreamIdle /\ HealthIdle /\ ApiKeysIdle /\ SharedIdle /\ HandlerIdle /\ LocksIdle /\ DiskIdle
    /\ hist = HistInit
    /\ pool_result = "None"
    /\ response = NoResponse
    /\ \/ /\ pool_manager = TRUE
          /\ pools_file \in PoolFiles
          /\ \E by_pool \in CredentialsByPool : pools = reloaded(pools_file, by_pool)
       \/ /\ pool_manager = FALSE
          /\ pools_file = [p \in PoolIds |-> NoPool]
          /\ pools = [p \in PoolIds |-> NoRuntime]

\* The values of UpdatePoolRequest::enabled and ::priority
EnabledUpdates == {[some |-> FALSE, value |-> FALSE], Some(TRUE), Some(FALSE)}
PriorityUpdates == {[some |-> FALSE, value |-> 0]} \cup {Some(n) : n \in PoolPriorities}

NextPools ==
    \/ \E b \in Bindings : \E o \in OrdersFor(pools, b) :
          handle_messages_request(b, o) /\ UNCHANGED hist
    \/ \E p \in PoolIds, e \in BOOLEAN, n \in PoolPriorities :
          create_pool(p, Pool(e, n)) /\ UNCHANGED hist
    \/ \E p \in PoolIds, e \in EnabledUpdates, n \in PriorityUpdates :
          update_pool(p, e, n) /\ UNCHANGED hist
    \/ \E p \in PoolIds : delete_pool(p) /\ UNCHANGED hist
    \/ \E by_pool \in CredentialsByPool : reload(by_pool) /\ UNCHANGED hist
    \/ \E p \in PoolIds, n \in 0..MaxPoolCredentials :
          pool_available(p, n) /\ UNCHANGED hist

SpecPools == InitPools /\ [][NextPools]_vars

----------------------------------------------------------------------------
(* C11: a key bound to a pool that is missing or disabled *)

\* The bound pool of a request is missing or disabled.
Unavailable(ps, pool_id) == ~ps[pool_id].config.exists \/ ~ps[pool_id].config.enabled

----------------------------------------------------------------------------
(* C12: automatic routing *)

\* The enabled pools with at least one available credential
Eligible(ps) ==
    {p \in PoolIds : ps[p].config.exists /\ ps[p].config.enabled /\ ps[p].available > 0}

\* C12: for a key bound to "__auto__", get_pool_for_api_key returns a pool
\* that is enabled, has an available credential and has the lowest priority
\* value of all such pools, disabled pools and pools without an available
\* credential being passed over; it returns none only when there is no such
\* pool, and the request is then answered 503.
C12_AutoRoute ==
    [][\A o \in PoolOrders(pools) :
          handle_messages_request(AUTO_ROUTE_POOL_ID, o) /\ pool_manager
          => IF Eligible(pools) = {}
             THEN response'.provider = NoPoolId /\ response'.status = "SERVICE_UNAVAILABLE"
             ELSE /\ response'.provider \in Eligible(pools)
                  /\ \A q \in Eligible(pools) :
                        pools[response'.provider].config.priority <= pools[q].config.priority
                  /\ response'.status = "Forwarded"]_vars

\* Automatic routing chose "backup" (priority 1), passing over the default
\* pool (priority 0, enabled, no credential available) and the disabled
\* pool "premium" (priority 0, a credential available).
C12_Witness ==
    /\ pool_manager
    /\ response = [pool_id |-> AUTO_ROUTE_POOL_ID, status |-> "Forwarded", provider |-> "backup"]
    /\ pools[DEFAULT_POOL_ID] = PoolRuntime(Pool(TRUE, 0), 0)
    /\ pools["premium"] = PoolRuntime(Pool(FALSE, 0), 1)
    /\ pools["backup"] = PoolRuntime(Pool(TRUE, 1), 1)

----------------------------------------------------------------------------
(* SpecIds: add_credential and delete_credential called concurrently *)

\* The duplicate check of MultiTokenManager::new
DuplicateIds(es) ==
    {es[k].id : k \in {j \in 1..Len(es) : \E i \in 1..(j - 1) : es[i].id = es[j].id}}

\* Credentials files with and without ids, one of them with an id twice.
FilesIds ==
    {<<FileCredential(NoId, 0, 1, FarExpiry)>>,
     <<FileCredential(2, 0, 1, FarExpiry), FileCredential(NoId, 1, 2, FarExpiry)>>,
     <<FileCredential(2, 0, 1, FarExpiry), FileCredential(1, 0, 2, FarExpiry)>>,
     <<FileCredential(1, 0, 1, FarExpiry), FileCredential(1, 1, 2, FarExpiry)>>}

\* MultiTokenManager::new returns a manager unless an id occurs twice.
InitIds ==
    /\ \E file \in FilesIds : InitFrom(file)
    /\ DuplicateIds(entries) = {}

NextIds ==
    \/ \E a \in AddCalls, p \in Priorities :
          add_credential_new_id(a, p, 15) /\ UNCHANGED hist
    \/ \E a \in AddCalls : add_credential_push(a) /\ UNCHANGED hist
    \/ \E i \in Ids, d \in BOOLEAN : set_disabled(i, d) /\ UNCHANGED hist
    \/ \E i \in Ids : delete_credential(i) /\ UNCHANGED hist

SpecIds == InitIds /\ [][NextIds]_vars

----------------------------------------------------------------------------
(* C13: unique ids *)

\* C13: no two entries of the manager share an id: the manager is not
\* constructed from credentials with an id twice, and after any sequence or
\* concurrent interleaving of add_credential and delete_credential calls the
\* ids of the entries are pairwise distinct.
C13_UniqueIds == DuplicateIds(entries) = {}

----------------------------------------------------------------------------
(* SpecRebind: calls of one session, one at a time, while credentials are  *)
(* disabled by failures, by failed refreshes and by the admin, and enabled *)
(* again by self-healing and by the admin                                  *)

\* History: was_disabled[t] is the cached credential of call t if it was
\* disabled when t made its first selection (NoId otherwise); avoided[t] is
\* the same as long as that credential has not been enabled again, by the
\* self-healing (of that selection too) or by the admin.
ObserveRebind(op, t) ==
    LET first == /\ op = "select"
                 /\ calls[t].tried_count = 0
                 /\ calls[t].cached_id # NoId
                 /\ Disabled(entries, calls[t].cached_id)
        StillDisabled(i) == IF i # NoId /\ Enabled(entries', i) THEN NoId ELSE i
    IN  hist' = [hist EXCEPT
            !.was_disabled = [u \in Calls |->
                IF u = t /\ op = "start" THEN NoId
                ELSE IF u = t /\ first THEN calls[t].cached_id
                ELSE @[u]],
            !.avoided = [u \in Calls |->
                IF u = t /\ op = "start" THEN NoId
                ELSE IF u = t /\ first THEN StillDisabled(calls[t].cached_id)
                ELSE StillDisabled(@[u])]]

RebindSession == 1

NextRebind ==
    \/ \E t \in OneCall : Start(t, RebindSession) /\ ObserveRebind("start", t)
    \/ \E t \in OneCall : Select(t) /\ ObserveRebind("select", t)
    \/ \E t \in OneCall : AcquireLock(t) /\ ObserveRebind("lock", t)
    \/ \E t \in OneCall : RefreshOk(t, 15) /\ ObserveRebind("response", t)
    \/ \E t \in OneCall : RefreshUnauthorized(t) /\ ObserveRebind("failure", t)
    \/ \E t \in OneCall : Bind(t) /\ ObserveRebind("bind", t)
    \/ \E i \in Ids : report_failure(i) /\ ObserveRebind("report_failure", 0)
    \/ \E i \in Ids, d \in BOOLEAN : set_disabled(i, d) /\ ObserveRebind("admin", 0)

SpecRebind == (\E mode \in Modes : InitIn(FileMixed, mode)) /\ [][NextRebind]_vars

----------------------------------------------------------------------------
(* C14: a session whose cached credential is disabled *)

\* A selection of call t that finds the cached credential disabled and
\* yields a credential.
SelectsPastDisabled(t) ==
    /\ Select(t)
    /\ calls[t].tried_count = 0
    /\ calls[t].cached_id # NoId
    /\ Disabled(entries, calls[t].cached_id)
    /\ calls'[t].pc # "failed"

\* C14 as stated: when the cached credential of a session is disabled at
\* acquire time, acquire_context_for_session returns a different credential,
\* one that is available, and after every successful call for session s the
\* session_map maps s to the id returned.
C14_AsStated ==
    [][\A t \in Calls :
          Bind(t)
          => /\ session_map'[calls[t].session] = calls[t].ctx.id
             /\ hist.was_disabled[t] # NoId => calls[t].ctx.id # hist.was_disabled[t]]_vars

\* C14: when the cached credential of a session is disabled at the time the
\* call selects, the call selects a credential that is enabled at that
\* moment, and it returns a credential different from the cached one unless
\* the cached one has been enabled again meanwhile (by the self-healing, of
\* that selection too, or by the admin); the credential returned is the one
\* selected last, and after every successful call for session s the
\* session_map maps s to the id returned.
C14_Rebinds ==
    [][\A t \in Calls :
          /\ SelectsPastDisabled(t) => Enabled(entries', calls'[t].id)
          /\ Bind(t)
             => /\ session_map'[calls[t].session] = calls[t].ctx.id
                /\ calls[t].ctx.id = calls[t].id
                /\ hist.avoided[t] # NoId => calls[t].ctx.id # hist.avoided[t]]_vars

\* A call whose cached credential 1 was disabled, and still is, has returned
\* credential 2, and the session is bound to 2.
C14_Witness ==
    \E t \in Calls :
        /\ calls[t].pc = "done"
        /\ hist.avoided[t] = 1
        /\ Disabled(entries, 1)
        /\ calls[t].ctx.id = 2
        /\ session_map[RebindSession] = 2

----------------------------------------------------------------------------
(* SpecCsrf: tokens generated, presented by concurrent requests, expiring *)

\* History: accepted[k] counts the validations that accepted token k,
\* expiry[k] is the expiry token k was generated with, fresh[v] says that the
\* token of validation v was in the store when v began.
ObserveCsrf(op, v) ==
    hist' = [hist EXCEPT
        !.accepted = [k \in Tokens |->
            IF op = "lock" /\ validations[v].token = k /\ validations'[v].valid
            THEN Inc(@[k], NumValidations) ELSE @[k]],
        !.expiry = [k \in Tokens |->
            IF op = "generate" /\ k = generated' THEN csrf_tokens'[k] ELSE @[k]],
        !.fresh = [u \in Validations |->
            IF op = "begin" /\ u = v
            THEN validations'[v].token # NoToken /\ csrf_tokens[validations'[v].token] # NoExpiry
            ELSE @[u]]]

NextCsrf ==
    \/ generate_token /\ ObserveCsrf("generate", 0)
    \/ \E v \in Validations, k \in Tokens \cup {NoToken} :
          csrf_middleware(v, k) /\ ObserveCsrf("begin", v)
    \/ \E v \in Validations : validate_token_now(v) /\ ObserveCsrf("now", v)
    \/ \E v \in Validations : validate_token_locked(v) /\ ObserveCsrf("lock", v)
    \/ csrf_tick /\ UNCHANGED hist

InitCsrf == InitIn(<<>>, "RoundRobin")

SpecCsrf == InitCsrf /\ [][NextCsrf]_vars

----------------------------------------------------------------------------
(* C15: a CSRF token is used once *)

Validated(v, k) == validations[v].pc = "done" /\ validations[v].token = k

\* C15: a CSRF token is accepted by at most one validation and is out of the
\* store from then on, so that every later validation of it fails (403 at
\* the middleware); a validation of a token that was in the store when the
\* validation began and has not expired succeeds unless another one has
\* accepted the token, and of the concurrent validations of such a token
\* exactly one succeeds.
C15_SingleUse ==
    \A k \in Tokens :
        /\ hist.accepted[k] <= 1
        /\ hist.accepted[k] = 1 => csrf_tokens[k] = NoExpiry
        /\ \A v \in Validations :
              Validated(v, k) /\ hist.fresh[v] /\ hist.expiry[k] > now
              => hist.accepted[k] = 1
        /\ \A v, w \in Validations :
              /\ v # w /\ Validated(v, k) /\ Validated(w, k)
              /\ hist.fresh[v] /\ hist.fresh[w] /\ hist.expiry[k] > now
              => ~(validations[v].valid /\ validations[w].valid)

\* Two validations of token 1 began while it was in the store; one has
\* accepted it, the other has been refused, and the token has not expired.
C15_Witness ==
    /\ Validated(1, 1) /\ Validated(2, 1)
    /\ hist.fresh[1] /\ hist.fresh[2]
    /\ hist.expiry[1] > now
    /\ validations[1].valid /\ ~validations[2].valid

----------------------------------------------------------------------------
(* SpecRate: requests of two API keys, two at a time, over two minutes *)

\* History: admitted[k][m] counts the requests of key k that check_rate_limit
\* let pass in minute m (not beyond one more than the limit).
ObserveRate(r, api_key) ==
    hist' = [hist EXCEPT
        !.admitted = [k \in ApiKeys |-> [m \in Minutes |->
            IF k = api_key /\ m = now /\ rate_requests'[r].pc = "record"
            THEN Inc(@[k][m], per_key_per_minute + 1) ELSE @[k][m]]]]

NextRate ==
    \/ \E r \in RateRequests, k \in ApiKeys :
          rate_limit_middleware(r, k) /\ ObserveRate(r, k)
    \/ \E r \in RateRequests : record_request(r) /\ UNCHANGED hist
    \/ rate_tick /\ UNCHANGED hist

InitRate == InitIn(<<>>, "RoundRobin")

SpecRate == InitRate /\ [][NextRate]_vars

----------------------------------------------------------------------------
(* C16: the limit per API key and minute *)

\* C16: with a limit of N requests per key and minute, at most N of the
\* requests of one API key that fall in one minute bucket are admitted (the
\* next one is answered 429), in every bucket.
C16_PerKeyLimit ==
    \A k \in ApiKeys, m \in Minutes : hist.admitted[k][m] <= per_key_per_minute

----------------------------------------------------------------------------
(* C18: the default pool cannot be deleted *)

\* The pool manager holds a pool with the id "default".
DefaultPoolExists == get_pool(pools, DEFAULT_POOL_ID) # NoPoolId

\* C18: delete_pool("default") always fails with CannotDeleteDefaultPool and
\* leaves the pools and pools.json as they are, and after any sequence of
\* create_pool, update_pool, delete_pool and reload the pool manager holds a
\* pool with the id "default".
C18_DefaultPoolKept ==
    /\ [](pool_manager => DefaultPoolExists)
    /\ [][delete_pool(DEFAULT_POOL_ID)
            => /\ pool_result' = "CannotDeleteDefaultPool"
               /\ UNCHANGED <<pools, pools_file>>]_vars

\* delete_pool("default") has been refused, after a pool had been created
\* and with the default pool disabled: the default pool is there.
C18_Witness ==
    /\ pool_manager
    /\ pool_result = "CannotDeleteDefaultPool"
    /\ DefaultPoolExists
    /\ ~is_enabled(pools[DEFAULT_POOL_ID])
    /\ get_pool(pools, "backup") # NoPoolId

----------------------------------------------------------------------------
(* SpecPersist: admin operations on the credentials, one after another, and
   cold starts from credentials.json *)

\* A cold start: the process ends and MultiTokenManager::new builds the
\* manager from credentials.json (it fails when an id occurs twice).
cold_start ==
    LET credentials == into_sorted_credentials(credentials_file)
    IN  /\ \A k, l \in 1..Len(credentials) :
              credentials[k].id = credentials[l].id /\ credentials[k].id # NoId => k = l
        /\ entries' = new_entries(credentials)
        /\ current_id' = new_current_id(entries')
        /\ session_map' = [s \in Sessions |-> NoId]
        /\ round_robin_counter' = 0
        /\ scheduling_mode' = "RoundRobin"
        /\ refresh_locks' = [i \in Ids |-> 0]
        /\ calls' = [t \in Calls |-> IdleCall]
        /\ credentials_file' = new_credentials_file(credentials_file)
        /\ UNCHANGED <<gateway_vars, now, issued>>

\* What the admin operations set: the credentials there are, the priority of
\* each and whether it is disabled.
AdminView(es) ==
    {[id |-> es[k].id, priority |-> es[k].credentials.priority,
      disabled |-> es[k].disabled] : k \in 1..Len(es)}

\* History: admin is what the admin operations that have returned Ok have
\* left (once one has).
ObservePersist ==
    hist' = [hist EXCEPT !.mutated = TRUE, !.admin = AdminView(entries')]

NextPersist ==
    \/ \E i \in Ids, d \in BOOLEAN : set_disabled(i, d) /\ ObservePersist
    \/ \E i \in Ids, p \in Priorities : set_priority(i, p) /\ ObservePersist
    \/ \E i \in Ids : reset_and_enable(i) /\ ObservePersist
    \/ \E p \in Priorities : add_credential(p, FarExpiry) /\ ObservePersist
    \/ \E i \in Ids : delete_credential(i) /\ ObservePersist
    \/ cold_start /\ UNCHANGED hist

FilesPersist ==
    {<<>>,
     <<FileCredential(NoId, 0, 1, FarExpiry)>>,
     <<FileCredential(1, 1, 1, FarExpiry), FileCredential(2, 0, 2, FarExpiry)>>}

InitPersist == \E file \in FilesPersist : InitFrom(file)

SpecPersist == InitPersist /\ [][NextPersist]_vars

----------------------------------------------------------------------------
(* C17: admin operations survive a cold start *)

\* C17: what the admin operations that returned success have set - the
\* credentials added and deleted, their priorities, which of them are
\* disabled - is what the manager holds, also after cold starts from the
\* persisted file.
C17_SurvivesColdStart ==
    hist.mutated => AdminView(entries) = hist.admin

----------------------------------------------------------------------------
(* SpecRelay: one SSE response, standard or buffered, over a body of up to
   three chunks that ends or fails, with pings *)

Ends == {"Err", "Eof"}

NextRelay ==
    \/ \E buffered \in BOOLEAN : build_sse_response(buffered) /\ UNCHANGED hist
    \/ \E event \in KiroEvents : sse_chunk(event) /\ UNCHANGED hist
    \/ \E end \in Ends : sse_final(end) /\ UNCHANGED hist
    \/ sse_ping /\ UNCHANGED hist
    \/ \E event \in KiroEvents : buffered_chunk(event) /\ UNCHANGED hist
    \/ \E end \in Ends : buffered_final(end) /\ UNCHANGED hist
    \/ stream_end /\ UNCHANGED hist

InitRelay == InitIn(<<>>, "RoundRobin")

SpecRelay == InitRelay /\ [][NextRelay]_vars

OfType(events, type) == SelectSeq(events, LAMBDA e : e.type = type)
WithoutPings(events) == SelectSeq(events, LAMBDA e : e.type # "ping")

\* The last n of the events
LastOf(events, n) ==
    IF Len(events) < n THEN <<>> ELSE SubSeq(events, Len(events) - n + 1, Len(events))

\* The SSE events of the upstream events, in their order
RECURSIVE Relayed(_)
Relayed(received) ==
    IF received = <<>> THEN <<>>
    ELSE process_kiro_event(Head(received)) \o Relayed(Tail(received))

\* The upstream events of the kind contextUsageEvent
ContextUsages(received) == SelectSeq(received, LAMBDA e : e.kind = "contextUsageEvent")

----------------------------------------------------------------------------
(* C19: the terminal events of an SSE response *)

\* C19: in an SSE response, standard or buffered, the terminal events
\* (message_delta, message_stop) are emitted exactly once, when the upstream
\* body ends or fails and not before, and no event, content or ping, is
\* emitted after them; the response ends only after them.
C19_TerminalOnce ==
    LET once == IF finished THEN 1 ELSE 0
    IN  /\ Len(OfType(client.events, "message_stop")) = once
        /\ Len(OfType(client.events, "message_delta")) = once
        /\ finished <=> body_stream.last \in Ends
        /\ finished => LastOf(client.events, 3) = generate_final_events
        /\ client.done => finished

\* A standard response has ended after a chunk, a ping and a read error.
C19_Witness ==
    /\ stream = "Done" /\ ~use_buffered_stream
    /\ body_stream.last = "Err"
    /\ body_stream.received # <<>>
    /\ client.pings > 0
    /\ LastOf(client.events, 1) = <<SseEvent("message_stop", 0)>>

----------------------------------------------------------------------------
(* C20: the buffered mode *)

----------------------------------------------------------------------------
(* SpecNonStream: the response to a non-streaming request, built from an
   upstream body of up to three events *)

NextNonStream ==
    \/ \E event \in BodyEvents : body_event(event) /\ UNCHANGED hist
    \/ build_non_stream_response(EstimatedInputTokens) /\ UNCHANGED hist

InitNonStream == InitIn(<<>>, "RoundRobin")

SpecNonStream == InitNonStream /\ [][NextNonStream]_vars

\* The body holds a tool use.
HasToolUse(events) == \E k \in 1..Len(events) : events[k].kind = "toolUseEvent"

\* The body holds the exception of the upstream for the token limit.
TokenLimitReached(events) ==
    \E k \in 1..Len(events) : events[k] = exceptionEvent(ContentLengthExceededException)

----------------------------------------------------------------------------
(* C21: the stop_reason of a non-streaming response *)

\* C21 as stated: the stop_reason is tool_use whenever the upstream events
\* hold a tool use, otherwise max_tokens when the upstream reported that the
\* token limit was reached, otherwise end_turn.
C21_AsStated ==
    response_body.built =>
        response_body.stop_reason =
            IF HasToolUse(body_bytes) THEN "tool_use"
            ELSE IF TokenLimitReached(body_bytes) THEN "max_tokens"
            ELSE "end_turn"

\* C21: the stop_reason is max_tokens whenever the upstream reported that
\* the token limit was reached, otherwise tool_use when the upstream events
\* hold a tool use, otherwise end_turn.
C21_Precedence ==
    response_body.built =>
        response_body.stop_reason =
            IF TokenLimitReached(body_bytes) THEN "max_tokens"
            ELSE IF HasToolUse(body_bytes) THEN "tool_use"
            ELSE "end_turn"

\* A response built from a body with a tool use and the exception for the
\* token limit after it.
C21_Witness ==
    /\ response_body.built
    /\ body_bytes = <<assistantResponseEvent(1), toolUseEvent(1, 0),
                      exceptionEvent(ContentLengthExceededException)>>
    /\ response_body.stop_reason = "max_tokens"

----------------------------------------------------------------------------
(* SpecHealth: GET /health over managers of up to three credentials that the
   admin disables and enables *)

FilesHealth ==
    {<<>>,
     <<FileCredential(1, 0, 1, FarExpiry)>>,
     <<FileCredential(1, 0, 1, FarExpiry), FileCredential(2, 0, 2, FarExpiry)>>,
     <<FileCredential(1, 0, 1, FarExpiry), FileCredential(2, 0, 2, FarExpiry),
       FileCredential(3, 0, 3, FarExpiry)>>}

NextHealth ==
    \/ \E i \in Ids, d \in BOOLEAN : set_disabled(i, d) /\ UNCHANGED hist
    \/ \E i \in Ids : report_quota_exhausted(i) /\ UNCHANGED hist
    \/ \E i \in Ids : delete_credential(i) /\ UNCHANGED hist
    \/ health_check /\ UNCHANGED hist

InitHealth == \E file \in FilesHealth : InitFrom(file)

SpecHealth == InitHealth /\ [][NextHealth]_vars

----------------------------------------------------------------------------
(* C22: the status of GET /health *)

\* C22: GET /health reports unhealthy when no credential is available,
\* degraded when the number of available credentials is not zero and less
\* than half of the total, and healthy otherwise, and answers 503 exactly
\* when the status is unhealthy and 200 otherwise.
C22_Status ==
    health # NoHealth =>
        /\ health.status =
              IF health.available = 0 THEN "unhealthy"
              ELSE IF 2 * health.available < health.total THEN "degraded"
              ELSE "healthy"
        /\ health.status_code =
              IF health.status = "unhealthy" THEN "SERVICE_UNAVAILABLE" ELSE "OK"
----------------------------------------------------------------------------
(* Authentication with API keys, while keys are created, updated and       *)
(* deleted.                                                                *)

NoChange(value) == [some |-> FALSE, value |-> value]

\* The ids of the enabled keys of a value
EnabledIds(ks, key) == {ks[k].id : k \in {j \in 1..Len(ks) : ks[j].enabled /\ ks[j].key = key}}

\* hist.revoked[v]: the last change of a key of value v was its deletion or
\* update(enabled = false), and no key of that value was created or enabled
\* since.
ObserveKeys(A) ==
    /\ A
    /\ hist' = [hist EXCEPT !.revoked = [v \in KeyValues |->
           IF EnabledIds(keys, v) \ EnabledIds(keys', v) # {} THEN TRUE
           ELSE IF EnabledIds(keys', v) \ EnabledIds(keys, v) # {} THEN FALSE
           ELSE @[v]]]

NextApiKeys ==
    \/ \E c \in Creates, name \in KeyNames, key \in KeyValues, pool_id \in KeyPools :
           ObserveKeys(create(c, name, key, pool_id))
    \/ \E c \in Creates : ObserveKeys(create_push(c))
    \/ \E id \in 1..MaxKeyId,
          name \in {NoChange(0)} \cup {Some(n) : n \in KeyNames},
          enabled \in {NoChange(FALSE), Some(FALSE), Some(TRUE)},
          pool_id \in {NoChange(NoPoolId)} \cup {Some(p) : p \in KeyPools} :
           ObserveKeys(update(id, name, enabled, pool_id))
    \/ \E id \in 1..MaxKeyId : ObserveKeys(delete(id))
    \/ \E key \in KeyValues : ObserveKeys(auth_middleware(key))

InitApiKeys == InitIn(<<>>, "RoundRobin")

SpecApiKeys == InitApiKeys /\ [][NextApiKeys]_vars

\* The request of this step presented the key and was let through
Accepted(key) == authenticated' = [authenticated' EXCEPT !.key = key, !.status = "Next"]

\* C23 as stated: a key is accepted only if an enabled ApiKey has exactly
\* that value; after update(enabled = false) or delete of the key it is
\* rejected, and the pool of an accepted key is the pool_id of the key.
C23_AsStated ==
    [][\A key \in KeyValues : auth_middleware(key) =>
          /\ Accepted(key) => validate(keys, key)
          /\ hist.revoked[key] => ~Accepted(key)
          /\ Accepted(key) =>
                \A k \in 1..Len(keys) :
                    keys[k].enabled /\ keys[k].key = key =>
                        authenticated'.pool_id = keys[k].pool_id]_vars

\* C23: a key is accepted exactly if some enabled ApiKey has that value at
\* that time: after update(enabled = false) or delete of a key its value is
\* rejected unless another enabled ApiKey has the same value, and the pool
\* of an accepted request is the current pool_id of the first enabled
\* ApiKey of that value in the order of creation.
C23_Authenticates ==
    [][\A key \in KeyValues : auth_middleware(key) =>
          /\ Accepted(key) <=> \E k \in 1..Len(keys) : keys[k].enabled /\ keys[k].key = key
          /\ ~Accepted(key) => authenticated'.status = "UNAUTHORIZED"
          /\ hist.revoked[key] /\ Cardinality(EnabledIds(keys, key)) = 0 => ~Accepted(key)
          /\ Accepted(key) =>
                \E k \in 1..Len(keys) :
                    /\ keys[k].enabled /\ keys[k].key = key
                    /\ \A j \in 1..(k - 1) : ~(keys[j].enabled /\ keys[j].key = key)
                    /\ authenticated'.pool_id = keys[k].pool_id]_vars

\* A key was disabled after it had been accepted, and is rejected; another
\* key is accepted with the pool it was moved to.
C23_Witness ==
    /\ \E v \in KeyValues :
          /\ hist.revoked[v]
          /\ authenticated = [key |-> v, status |-> "UNAUTHORIZED", pool_id |-> NoPoolId]
          /\ \E k \in 1..Len(keys) : keys[k].key = v /\ ~keys[k].enabled
    /\ \E k \in 1..Len(keys) : keys[k].enabled /\ keys[k].pool_id = "premium"

\* C25: no two stored API keys have the same name.
C25_UniqueNames ==
    \A j, k \in 1..Len(keys) : j # k => keys[j].name # keys[k].name
----------------------------------------------------------------------------
(* SpecDelete: delete_credential called for every id, on managers of up to
   three credentials that are disabled and enabled *)

\* A call of delete_credential(i) with what it returned in hist.deleted; a
\* call that returns an error has returned before anything was written.
delete_credential_call(i) ==
    /\ IF delete_credential_result(entries, i) = "Ok"
       THEN delete_credential(i)
       ELSE UNCHANGED <<manager_vars, gateway_vars>>
    /\ hist' = [hist EXCEPT !.deleted =
                    [id |-> i, result |-> delete_credential_result(entries, i)]]

NextDelete ==
    \/ \E i \in Ids, d \in BOOLEAN : set_disabled(i, d) /\ UNCHANGED hist
    \/ \E i \in Ids : report_quota_exhausted(i) /\ UNCHANGED hist
    \/ \E i \in Ids, p \in Priorities : set_priority(i, p) /\ UNCHANGED hist
    \/ \E i \in 0..MaxId : delete_credential_call(i)

InitDelete == \E file \in FilesHealth : InitFrom(file)

SpecDelete == InitDelete /\ [][NextDelete]_vars

\* C24: delete_credential(id) returns Ok only for a credential that exists
\* and is disabled, and then the credential is gone; when the credential is
\* enabled or does not exist the call returns an error and entries,
\* current_id and the persisted file are unchanged.
C24_DeleteOnlyDisabled ==
    [][\A i \in 0..MaxId : delete_credential_call(i) =>
          /\ hist'.deleted.result = "Ok" <=>
                 HasEntry(entries, i) /\ EntryOf(entries, i).disabled
          /\ hist'.deleted.result = "Ok" => ~HasEntry(entries', i)
          /\ hist'.deleted.result # "Ok" =>
                 UNCHANGED <<entries, current_id, credentials_file>>]_vars

\* A disabled credential was deleted, and the deletion of an enabled one
\* was refused.
C24_Witness ==
    /\ hist.deleted.result = "NotDisabled"
    /\ HasEntry(entries, hist.deleted.id)
    /\ ~EntryOf(entries, hist.deleted.id).disabled
    /\ \E i \in Ids : ~HasEntry(entries, i) /\ i < MaxOf(EntryIds(entries))
----------------------------------------------------------------------------
(* SpecQuota: report_quota_exhausted on credentials in every state: enabled,
   with failures, disabled by failures, disabled by the admin *)

\* hist.quota_reported: the id of the call of report_quota_exhausted that
\* has just returned
ObserveQuota(A, i) ==
    /\ A
    /\ hist' = [hist EXCEPT !.quota_reported = i]

NextQuota ==
    \/ \E i \in Ids : ObserveQuota(report_failure(i), NoId)
    \/ \E i \in Ids : ObserveQuota(report_success(i), NoId)
    \/ \E i \in Ids, d \in BOOLEAN : ObserveQuota(set_disabled(i, d), NoId)
    \/ \E i \in Ids : ObserveQuota(report_quota_exhausted(i), i)

InitQuota == \E file \in FilesHealth : InitFrom(file)

SpecQuota == InitQuota /\ [][NextQuota]_vars

\* C26 as stated: after report_quota_exhausted(id) the credential is
\* disabled with the reason QuotaExceeded and failure_count = 3, whatever
\* it was before.
C26_AsStated ==
    hist.quota_reported # NoId =>
        LET e == EntryOf(entries, hist.quota_reported)
        IN  /\ e.disabled
            /\ e.disabled_reason = "QuotaExceeded"
            /\ e.failure_count = MAX_FAILURES_PER_CREDENTIAL

\* C26: report_quota_exhausted(id) on a credential that is not disabled
\* leaves it disabled with the reason QuotaExceeded and failure_count = 3;
\* on a credential that is already disabled it changes nothing: the reason
\* and the failure_count stay as they were.  Either way the credential is
\* disabled afterwards.
C26_DisablesEnabled ==
    [][\A i \in Ids : report_quota_exhausted(i) /\ hist'.quota_reported = i =>
          /\ EntryOf(entries', i).disabled
          /\ IF EntryOf(entries, i).disabled
             THEN entries' = entries
             ELSE /\ EntryOf(entries', i).disabled_reason = "QuotaExceeded"
                  /\ EntryOf(entries', i).failure_count = MAX_FAILURES_PER_CREDENTIAL]_vars

\* report_quota_exhausted has returned for a credential that the admin had
\* disabled, and another credential is disabled for its quota.
C26_Witness ==
    /\ hist.quota_reported # NoId
    /\ EntryOf(entries, hist.quota_reported).disabled_reason = "Manual"
    /\ \E k \in 1..Len(entries) :
          /\ entries[k].disabled_reason = "QuotaExceeded"
          /\ entries[k].failure_count = MAX_FAILURES_PER_CREDENTIAL
----------------------------------------------------------------------------
(* SpecCounter: round_robin_counter while one call selects by round robin
   and credentials are disabled, enabled, healed, reprioritised and deleted *)

\* hist.last_op: what the last step did to the credentials: "disable" and
\* "heal" when a report, a failed refresh or select_any_available changed
\* which credentials are disabled, the name of the admin operation, or
\* "other".
ObserveCounter(A, op) ==
    /\ A
    /\ hist' = [hist EXCEPT !.last_op =
          IF op = "report"
          THEN IF AvailableIds(entries') # AvailableIds(entries) THEN "disable" ELSE "other"
          ELSE IF op = "select"
          THEN IF AvailableIds(entries') # AvailableIds(entries) THEN "heal" ELSE "other"
          ELSE op]

NextCounter ==
    \/ \E t \in OneCall, s \in {NoSession, 1} : ObserveCounter(Start(t, s), "other")
    \/ \E t \in OneCall : ObserveCounter(Select(t), "select")
    \/ \E t \in OneCall : ObserveCounter(AcquireLock(t), "other")
    \/ \E t \in OneCall : ObserveCounter(RefreshOk(t, 15), "other")
    \/ \E t \in OneCall : ObserveCounter(RefreshTransient(t), "other")
    \/ \E t \in OneCall : ObserveCounter(RefreshUnauthorized(t), "report")
    \/ \E t \in OneCall : ObserveCounter(Bind(t), "other")
    \/ \E i \in Ids : ObserveCounter(report_failure(i), "report")
    \/ \E i \in Ids : ObserveCounter(report_quota_exhausted(i), "report")
    \/ \E i \in Ids, d \in BOOLEAN : ObserveCounter(set_disabled(i, d), "set_disabled")
    \/ \E i \in Ids : ObserveCounter(set_priority(i, 0), "set_priority")
    \/ \E i \in Ids : ObserveCounter(reset_and_enable(i), "reset_and_enable")
    \/ \E i \in Ids : ObserveCounter(delete_credential(i), "delete_credential")

InitCounter == InitFrom(FileMixed)

SpecCounter == InitCounter /\ [][NextCounter]_vars

\* C28: every operation that changes the set of available credentials and
\* every admin operation that mutates entries leaves round_robin_counter
\* equal to 0.
C28_CounterReset ==
    hist.last_op # "other" => round_robin_counter = 0
----------------------------------------------------------------------------
(* SpecShared: two pools whose managers persist to the one credentials file *)

\* credentials.json: credentials of the default pool (named or not) and of
\* the pool "premium", with and without ids.
SharedFiles ==
    {<<KiroCredentials(NoPoolId, 1, 0, 0), KiroCredentials("premium", 2, 0, 0)>>,
     <<KiroCredentials(DEFAULT_POOL_ID, 1, 1, 0), KiroCredentials("premium", 2, 0, 0),
       KiroCredentials("premium", 3, 1, 0)>>,
     <<KiroCredentials(NoPoolId, NoId, 0, 0), KiroCredentials("premium", 1, 0, 0)>>,
     <<KiroCredentials(DEFAULT_POOL_ID, 1, 0, 0)>>}

\* hist.writer: the pool whose manager wrote the file in the last step
ObserveShared(A, pool_id) ==
    /\ A
    /\ hist' = [hist EXCEPT !.writer = pool_id]

NextShared ==
    \/ \E p \in CredentialPools, i \in Ids, priority \in Priorities :
           ObserveShared(pool_set_priority(p, i, priority), p)
    \/ \E p \in CredentialPools, i \in Ids, tok \in 1..MaxSharedToken :
           ObserveShared(pool_refresh_token(p, i, tok), p)
    \/ \E order \in PoolSequences : ObserveShared(reload_credentials(order), NoPoolId)

\* PoolManager::new: reload on the credentials file
InitShared ==
    /\ ManagerNew(<<>>, "RoundRobin")
    /\ PoolsIdle /\ AddsIdle /\ CsrfIdle /\ RateIdle /\ RelayIdle /\ NonStreamIdle /\ HealthIdle /\ ApiKeysIdle /\ HandlerIdle /\ LocksIdle /\ DiskIdle
    /\ hist = HistInit
    /\ \E file \in SharedFiles, order \in PoolSequences :
          LET all_credentials == into_sorted_credentials(file)
          IN  /\ pool_token_managers = [p \in CredentialPools |->
                     pool_token_manager(credentials_by_pool(all_credentials, p))]
              /\ pool_credentials_file = reload_file(file, all_credentials, order)
              /\ pool_runtime = [p \in CredentialPools |->
                     pool_token_manager_runtime(credentials_by_pool(all_credentials, p))]
              /\ pool_session_map = [p \in CredentialPools |-> {}]

SpecShared == InitShared /\ [][NextShared]_vars

\* C27: a write of the credentials file by the manager of one pool leaves
\* the credentials of every other pool in the file as they were.
C27_OthersKept ==
    [][\A p \in CredentialPools : hist'.writer = p =>
          \A q \in CredentialPools \ {p} :
              credentials_by_pool(pool_credentials_file', q)
                  = credentials_by_pool(pool_credentials_file, q)]_vars
----------------------------------------------------------------------------
(* SpecRetry: calls whose token acquisition fails with a transient error   *)
(* and that go on to the next attempt, in both scheduling modes            *)

\* hist.failed[t]: the credential whose refresh has just failed with a
\* transient error in call t, until the call has selected again.
ObserveRetry(A, op, t) ==
    /\ A
    /\ hist' = [hist EXCEPT !.failed = [u \in Calls |->
          IF u # t THEN @[u]
          ELSE IF op = "transient" /\ calls'[t].pc = "select" THEN calls[t].id
          ELSE NoId]]

NextRetry ==
    \/ \E t \in Calls, s \in {NoSession, 1} : ObserveRetry(Start(t, s), "start", t)
    \/ \E t \in Calls : ObserveRetry(Select(t), "select", t)
    \/ \E t \in Calls : ObserveRetry(AcquireLock(t), "lock", t)
    \/ \E t \in Calls : ObserveRetry(RefreshOk(t, 15), "response", t)
    \/ \E t \in Calls : ObserveRetry(RefreshTransient(t), "transient", t)
    \/ \E t \in Calls : ObserveRetry(Bind(t), "bind", t)

InitRetry == \E mode \in Modes : InitIn(FileMixed, mode)

SpecRetry == InitRetry /\ [][NextRetry]_vars

\* C29: after a transient failure of the token acquisition for a
\* credential that stays enabled, and with another enabled credential, the
\* next attempt of the same call uses a different credential.
C29_NextDiffers ==
    [][\A t \in Calls :
          /\ Select(t)
          /\ hist.failed[t] # NoId
          /\ hist.failed[t] \in AvailableIds(entries)
          /\ AvailableIds(entries) \ {hist.failed[t]} # {}
          => calls'[t].id # hist.failed[t]]_vars
----------------------------------------------------------------------------
(* SpecAcquire: concurrent calls of acquire_context whose refreshes        *)
(* succeed, fail and disable credentials, with self-healing in between     *)

\* Both tokens are to be refreshed.
FileStale ==
    <<FileCredential(NoId, 0, NoToken, NoExpiry), FileCredential(NoId, 1, NoToken, NoExpiry)>>

Running(t) == calls[t].pc \in {"select", "lock", "refresh", "bind"}
Ended(t) == calls[t].pc \in {"done", "failed"}

\* hist.total[t]: total_count() at the start of call t; hist.healed_in[t]:
\* select_any_available has re-enabled credentials in call t.
ObserveAcquire(A, op, t) ==
    /\ A
    /\ hist' = [hist EXCEPT
          !.total[t] = IF op = "start" THEN Len(entries) ELSE @,
          !.healed_in[t] =
              IF op = "start" THEN FALSE
              ELSE @ \/ (op = "select" /\ AvailableIds(entries') \ AvailableIds(entries) # {})]

\* A call starts while round_robin_counter has room for the selections of
\* the calls that run.
StartAcquire(t) ==
    /\ round_robin_counter + Len(entries) * (Cardinality({u \in Calls : Running(u)}) + 1)
          <= MaxCounter
    /\ ObserveAcquire(Start(t, NoSession), "start", t)

\* The refresh endpoint answers.
Response(t) ==
    \/ ObserveAcquire(RefreshOk(t, 15), "response", t)
    \/ ObserveAcquire(RefreshTransient(t), "response", t)
    \/ ObserveAcquire(RefreshUnauthorized(t), "response", t)

NextAcquire ==
    \/ \E t \in Calls : StartAcquire(t)
    \/ \E t \in Calls : ObserveAcquire(Select(t), "select", t)
    \/ \E t \in Calls : ObserveAcquire(AcquireLock(t), "lock", t)
    \/ \E t \in Calls : Response(t)
    \/ \E t \in Calls : ObserveAcquire(Bind(t), "bind", t)

InitAcquire == \E file \in {<<>>, FileStale}, mode \in Modes : InitIn(file, mode)

\* The runtime goes on with every call that can take a step, the refresh
\* endpoint answers every request, and the refresh lock of a credential
\* (a tokio Mutex, which is fair) is granted to every call that waits.
SpecAcquire ==
    /\ InitAcquire
    /\ [][NextAcquire]_vars
    /\ \A t \in Calls :
          /\ WF_vars(ObserveAcquire(Select(t), "select", t))
          /\ SF_vars(ObserveAcquire(AcquireLock(t), "lock", t))
          /\ WF_vars(Response(t))
          /\ WF_vars(ObserveAcquire(Bind(t), "bind", t))

\* C30: every call of acquire_context returns: with a CallContext, or with
\* an error after at most total failed token attempts, where total is the
\* number of credentials at the start of the call (at once when there are
\* none), also when self-healing has re-enabled credentials during the call.
C30_Terminates ==
    /\ [](\A t \in Calls :
            /\ calls[t].tried_count <= hist.total[t]
            /\ Running(t) => calls[t].tried_count < hist.total[t]
            /\ calls[t].pc = "done" => calls[t].ctx.token # NoToken)
    /\ \A t \in Calls : Running(t) ~> Ended(t)

\* A call has failed after as many attempts as there are credentials, and
\* self-healing had re-enabled credentials during the call.
C30_Witness ==
    \E t \in Calls :
        /\ calls[t].pc = "failed"
        /\ hist.healed_in[t]
        /\ calls[t].tried_count = hist.total[t]
        /\ hist.total[t] = 2
----------------------------------------------------------------------------
(* C31: a key without a pool binding while the default pool is disabled *)

\* C31: with a pool manager and the default pool disabled, a request of a
\* key without a pool binding is not served: no provider, of a pool or the
\* global one, is given to it.
C31_NotServed ==
    [][/\ handle_messages_request(NoPoolId, <<>>)
       /\ pool_manager
       /\ pools[DEFAULT_POOL_ID].config.exists
       /\ ~is_enabled(pools[DEFAULT_POOL_ID])
       => /\ response'.status # "Forwarded"
          /\ response'.provider = NoPoolId]_vars
----------------------------------------------------------------------------
(* SpecHandler: requests whose upstream calls succeed and fail *)

NextHandler ==
    \/ \E is_stream \in BOOLEAN : handle_request(is_stream) /\ UNCHANGED hist
    \/ call_api_ok /\ UNCHANGED hist
    \/ \E error_msg \in ErrorMessages : call_api_err(error_msg) /\ UNCHANGED hist
    \/ sleep_over /\ UNCHANGED hist
    \/ bytes_ok /\ UNCHANGED hist
    \/ bytes_err /\ UNCHANGED hist

InitHandler == InitIn(<<>>, "RoundRobin")

SpecHandler == InitHandler /\ [][NextHandler]_vars

\* The retries made so far for the request
Retries == handler.calls - 1

----------------------------------------------------------------------------
(* SpecLocks: concurrent operations of the credential manager, lock by lock *)

NextLocks ==
    \/ \E t \in Tasks, op \in Operations : call_operation(t, op) /\ UNCHANGED hist
    \/ \E t \in Tasks : lock(t) /\ UNCHANGED hist
    \/ \E t \in Tasks : unlock(t) /\ UNCHANGED hist
    \/ \E t \in Tasks : await_over(t) /\ UNCHANGED hist

InitLocks == InitIn(<<>>, "RoundRobin")

SpecLocks == InitLocks /\ [][NextLocks]_vars

Holds(t, l) == lock_holder[l] = t

\* The task waits for a lock that is held.
Blocked(t) ==
    /\ Busy(t)
    /\ NextStep(t)[1] \in {"lock", "lock_await"}
    /\ lock_holder[NextStep(t)[2]] # NoTask

\* The task gets on, or waits for a task that does, through at most n waits.
RECURSIVE GetsOn(_, _)
GetsOn(t, n) ==
    \/ ~Blocked(t)
    \/ /\ n > 0
       /\ lock_holder[NextStep(t)[2]] # t
       /\ GetsOn(lock_holder[NextStep(t)[2]], n - 1)

\* The task is at an await point.
AtAwait(t) == Busy(t) /\ NextStep(t)[1] \in {"await", "lock_await"}

\* C33: whoever holds current_id holds entries (entries is taken first),
\* neither is held at an await point, and no task waits in a cycle: every
\* task that waits for a lock waits for a task that gets on.
C33_NoDeadlock ==
    /\ lock_holder["current_id"] # NoTask
          => lock_holder["entries"] = lock_holder["current_id"]
    /\ \A t \in Tasks :
          /\ AtAwait(t) => ~Holds(t, "entries") /\ ~Holds(t, "current_id")
          /\ GetsOn(t, NumTasks)

\* A task holds entries and current_id while another task waits for entries.
C33_Witness ==
    \E t, u \in Tasks :
        /\ Holds(t, "entries") /\ Holds(t, "current_id")
        /\ Blocked(u) /\ NextStep(u)[2] = "entries"
        /\ task[u].op \in {"delete_credential", "snapshot", "report_failure"}
----------------------------------------------------------------------------
(* The managers of the pools at work, and assign_credential_to_pool *)

\* The place of the first entry with the id in the manager of the pool, or 0
PlaceOf(managers, pool_id, i) ==
    LET ks == {k \in 1..Len(managers[pool_id]) : managers[pool_id][k].id = i}
    IN  IF ks = {} THEN 0 ELSE CHOOSE k \in ks : \A j \in ks : k <= j

\* set_disabled on the manager of a pool, with its persist_credentials
pool_set_disabled(pool_id, i, disabled) ==
    LET k == PlaceOf(pool_token_managers, pool_id, i)
    IN  /\ k # 0
        /\ pool_runtime' = [pool_runtime EXCEPT ![pool_id][k] =
              IF disabled THEN [@ EXCEPT !.disabled = TRUE, !.disabled_reason = "Manual"]
              ELSE FreshEntry]
        /\ pool_credentials_file' = pool_persist_credentials(pool_token_managers, pool_id)
        /\ UNCHANGED <<pool_token_managers, pool_session_map, now, beside_shared>>

\* report_quota_exhausted on the manager of a pool, for an enabled entry
pool_report_quota_exhausted(pool_id, i) ==
    LET k == PlaceOf(pool_token_managers, pool_id, i)
    IN  /\ k # 0
        /\ ~pool_runtime[pool_id][k].disabled
        /\ pool_runtime' = [pool_runtime EXCEPT ![pool_id][k] =
              [@ EXCEPT !.disabled = TRUE, !.disabled_reason = "QuotaExceeded"]]
        /\ UNCHANGED <<pool_token_managers, pool_credentials_file, pool_session_map,
                       now, beside_shared>>

\* report_failure on the manager of a pool, for an enabled entry
pool_report_failure(pool_id, i) ==
    LET k == PlaceOf(pool_token_managers, pool_id, i)
    IN  /\ k # 0
        /\ ~pool_runtime[pool_id][k].disabled
        /\ pool_runtime' = [pool_runtime EXCEPT ![pool_id][k] =
              IF @.failure_count + 1 >= MAX_FAILURES_PER_CREDENTIAL
              THEN [failure_count |-> @.failure_count + 1, disabled |-> TRUE,
                    disabled_reason |-> "TooManyFailures"]
              ELSE [@ EXCEPT !.failure_count = @ + 1]]
        /\ UNCHANGED <<pool_token_managers, pool_credentials_file, pool_session_map,
                       now, beside_shared>>

\* acquire_context_for_session on the manager of a pool: the session is
\* bound to the enabled credential that serves it.
pool_bind(pool_id, sid, i) ==
    LET k == PlaceOf(pool_token_managers, pool_id, i)
    IN  /\ k # 0
        /\ ~pool_runtime[pool_id][k].disabled
        /\ pool_session_map' = [pool_session_map EXCEPT ![pool_id] =
              {b \in @ : b[1] # sid} \cup {<<sid, i>>}]
        /\ UNCHANGED <<pool_token_managers, pool_credentials_file, pool_runtime,
                       now, beside_shared>>

\* The credentials of the file with the first one of the id moved to the pool
Assigned(file, credential_id, pool_id) ==
    LET ks == {k \in 1..Len(file) : file[k].id = credential_id}
        first == CHOOSE k \in ks : \A j \in ks : k <= j
    IN  [k \in 1..Len(file) |->
            IF k = first THEN [file[k] EXCEPT !.pool_id = pool_id] ELSE file[k]]

\* assign_credential_to_pool: PoolNotFound and CredentialNotFound leave
\* everything as it is; otherwise the file is rewritten and reload runs.
assign_credential_to_pool(credential_id, pool_id, order) ==
    /\ pool_id \in CredentialPools
    /\ \E k \in 1..Len(pool_credentials_file) : pool_credentials_file[k].id = credential_id
    /\ LET content == Assigned(pool_credentials_file, credential_id, pool_id)
           all_credentials == into_sorted_credentials(content)
       IN  /\ pool_token_managers' = [p \in CredentialPools |->
                  pool_token_manager(credentials_by_pool(all_credentials, p))]
           /\ pool_credentials_file' = reload_file(content, all_credentials, order)
           /\ pool_runtime' = [p \in CredentialPools |->
                  pool_token_manager_runtime(credentials_by_pool(all_credentials, p))]
           /\ pool_session_map' = [p \in CredentialPools |-> {}]
    /\ UNCHANGED <<now, beside_shared>>

----------------------------------------------------------------------------
(* SpecReload: credentials files with credentials of a pool that has been  *)
(* deleted, the managers of the pools at work, assignments and reloads     *)

\* A pool that delete_pool has removed from pools.json
DeletedPool == "removed"

ReloadFiles ==
    {<<KiroCredentials(NoPoolId, 1, 0, 0), KiroCredentials("premium", 2, 0, 0)>>,
     <<KiroCredentials(NoPoolId, 1, 0, 0), KiroCredentials(DeletedPool, 2, 0, 0)>>,
     <<KiroCredentials(DeletedPool, 1, 0, 0)>>}

ReloadSessions == {1}

ObserveReload(A, op) ==
    /\ A
    /\ hist' = [hist EXCEPT !.last_op = op]

NextReload ==
    \/ \E p \in CredentialPools, i \in Ids, disabled \in BOOLEAN :
           ObserveReload(pool_set_disabled(p, i, disabled), "set_disabled")
    \/ \E p \in CredentialPools, i \in Ids :
           ObserveReload(pool_report_quota_exhausted(p, i), "report_quota_exhausted")
    \/ \E p \in CredentialPools, i \in Ids :
           ObserveReload(pool_report_failure(p, i), "report_failure")
    \/ \E p \in CredentialPools, sid \in ReloadSessions, i \in Ids :
           ObserveReload(pool_bind(p, sid, i), "bind")
    \/ \E i \in Ids, p \in CredentialPools \cup {DeletedPool}, order \in PoolSequences :
           ObserveReload(assign_credential_to_pool(i, p, order), "assign_credential_to_pool")
    \/ \E order \in PoolSequences : ObserveReload(reload_credentials(order), "reload")

\* PoolManager::new: reload on the credentials file
InitReload ==
    /\ ManagerNew(<<>>, "RoundRobin")
    /\ PoolsIdle /\ AddsIdle /\ CsrfIdle /\ RateIdle /\ RelayIdle /\ NonStreamIdle /\ HealthIdle /\ ApiKeysIdle /\ HandlerIdle /\ LocksIdle /\ DiskIdle
    /\ hist = HistInit
    /\ \E file \in ReloadFiles, order \in PoolSequences :
          LET all_credentials == into_sorted_credentials(file)
          IN  /\ pool_token_managers = [p \in CredentialPools |->
                     pool_token_manager(credentials_by_pool(all_credentials, p))]
              /\ pool_credentials_file = reload_file(file, all_credentials, order)
              /\ pool_runtime = [p \in CredentialPools |->
                     pool_token_manager_runtime(credentials_by_pool(all_credentials, p))]
              /\ pool_session_map = [p \in CredentialPools |-> {}]

SpecReload == InitReload /\ [][NextReload]_vars

\* The pool that is to own the credential
OwnerOf(c) == IF PoolOf(c) \in CredentialPools THEN PoolOf(c) ELSE DEFAULT_POOL_ID

\* How many entries of the manager hold the credential
Owned(manager, c) == Cardinality({k \in 1..Len(manager) : manager[k] = c})

\* C34: after a reload every credential of the credentials file is owned by
\* exactly one pool's manager: the pool its pool_id names if that pool
\* exists, the default pool otherwise.
C34_AllOwned ==
    [][hist'.last_op \in {"reload", "assign_credential_to_pool"} =>
          \A k \in 1..Len(pool_credentials_file') :
              \A p \in CredentialPools :
                  Owned(pool_token_managers'[p], pool_credentials_file'[k])
                      = IF p = OwnerOf(pool_credentials_file'[k]) THEN 1 ELSE 0]_vars

\* The state of the entries of the credential in the managers of the pools
RuntimeOf(managers, runtime, i) ==
    {runtime[p][k] : <<p, k>> \in
        {pk \in CredentialPools \X (1..MaxId) :
            pk[2] <= Len(managers[pk[1]]) /\ managers[pk[1]][pk[2]].id = i}}

\* The sessions bound to the credential
BoundTo(bindings, i) ==
    {b[1] : b \in {c \in UNION {bindings[p] : p \in CredentialPools} : c[2] = i}}

\* C35: assign_credential_to_pool leaves the disabled flag, the reason, the
\* failure_count and the session bindings of every credential as they were.
C35_StateKept ==
    [][hist'.last_op = "assign_credential_to_pool" =>
          \A i \in Ids :
              /\ RuntimeOf(pool_token_managers', pool_runtime', i)
                     = RuntimeOf(pool_token_managers, pool_runtime, i)
              /\ BoundTo(pool_session_map', i) = BoundTo(pool_session_map, i)]_vars
----------------------------------------------------------------------------
(* SpecWrites: the operations that write the credentials file, on a disk   *)
(* whose writes may fail                                                   *)

\* hist.last_op: the operation of the last step; hist.result: what it
\* returned ("None" for a step that returns nothing to a caller yet).
ObserveWrite(A, op, result) ==
    /\ A
    /\ hist' = [hist EXCEPT !.last_op = op, !.result = result]

AdminOperations ==
    {"set_disabled", "set_priority", "reset_and_enable", "add_credential",
     "delete_credential"}

NextWrites ==
    \/ \E writable \in BOOLEAN : ObserveWrite(fs_change(writable), "other", "None")
    \/ \E t \in OneCall : ObserveWrite(Start(t, NoSession), "other", "None")
    \/ \E t \in OneCall : ObserveWrite(Select(t), "other", "None")
    \/ \E t \in OneCall : ObserveWrite(AcquireLock(t), "other", "None")
    \/ \E t \in OneCall : ObserveWrite(RefreshOk(t, 15), "refresh", "None")
    \/ \E t \in OneCall : ObserveWrite(Bind(t), "acquire_context", "Ok")
    \/ \E i \in Ids, d \in BOOLEAN :
           ObserveWrite(set_disabled(i, d), "set_disabled", admin_result(entries, i))
    \/ \E i \in Ids :
           ObserveWrite(set_priority(i, 0), "set_priority", admin_result(entries, i))
    \/ \E i \in Ids :
           ObserveWrite(reset_and_enable(i), "reset_and_enable", admin_result(entries, i))
    \/ ObserveWrite(add_credential(0, 15), "add_credential", add_credential_result)
    \/ \E i \in Ids :
           ObserveWrite(delete_credential(i), "delete_credential",
                          delete_credential_persist_result(entries, i))

\* One credential whose token is to be refreshed
FileOneStale == <<FileCredential(1, 1, NoToken, NoExpiry)>>

InitWrites == InitFrom(FileOneStale)

SpecWrites == InitWrites /\ [][NextWrites]_vars

----------------------------------------------------------------------------
(* C37: what record_request leaves in the buckets *)

\* C37: record_request at minute m and hour h leaves the global buckets and
\* the buckets of the key for m and h with their counts incremented by one,
\* and its sweep leaves every bucket that is not more than 2 hours (120
\* minutes) older than m and h as it was.
C37_BucketsKept ==
    [][\A r \in RateRequests : record_request(r) =>
          LET m == now
              h == now \div MinutesPerHour
              api_key == rate_requests[r].api_key
          IN  /\ global_minute_requests'[m] = global_minute_requests[m] + 1
              /\ global_hour_requests'[h] = global_hour_requests[h] + 1
              /\ key_minute_requests'[api_key][m] = key_minute_requests[api_key][m] + 1
              /\ key_hour_requests'[api_key][h] = key_hour_requests[api_key][h] + 1
              /\ \A k \in Minutes \ {m} : k + MinuteRetention >= m =>
                     global_minute_requests'[k] = global_minute_requests[k]
              /\ \A k \in Hours \ {h} : k + HourRetention >= h =>
                     global_hour_requests'[k] = global_hour_requests[k]]_vars
----------------------------------------------------------------------------
(* SpecReuse: credentials are disabled, deleted and added while the calls  *)
(* of a session are served                                                 *)

\* hist.removed: the ids of the credentials that delete_credential has
\* removed
ObserveReuse(A, removed) ==
    /\ A
    /\ hist' = [hist EXCEPT !.removed = @ \cup removed]

NextReuse ==
    \/ \E t \in OneCall : ObserveReuse(Start(t, 1), {})
    \/ \E t \in OneCall : ObserveReuse(Select(t), {})
    \/ \E t \in OneCall : ObserveReuse(Bind(t), {})
    \/ \E i \in Ids, d \in BOOLEAN : ObserveReuse(set_disabled(i, d), {})
    \/ \E i \in Ids : ObserveReuse(delete_credential(i), {i})
    \/ \E p \in Priorities : ObserveReuse(add_credential(p, FarExpiry), {})

InitReuse == \E mode \in Modes : InitIn(FileFresh, mode)

SpecReuse == InitReuse /\ [][NextReuse]_vars

\* C38: no entry has the id of a credential that has been deleted, so that
\* no binding of session_map left by a deleted credential leads to another
\* credential.
C38_NoReuse ==
    \A k \in 1..Len(entries) : entries[k].id \notin hist.removed
----------------------------------------------------------------------------
(* C39: current_id names an entry *)

\* C39: current_id is the id of an entry of entries, or 0 when there are no
\* entries.
C39_CurrentExists ==
    IF entries = <<>> THEN current_id = NoId ELSE HasEntry(entries, current_id)
----------------------------------------------------------------------------
(* SpecEntries: every operation that writes disabled, disabled_reason or   *)
(* failure_count                                                           *)

NextEntries ==
    \/ \E t \in OneCall : Start(t, NoSession) /\ UNCHANGED hist
    \/ \E t \in OneCall : Select(t) /\ UNCHANGED hist
    \/ \E t \in OneCall : AcquireLock(t) /\ UNCHANGED hist
    \/ \E t \in OneCall : RefreshOk(t, 15) /\ UNCHANGED hist
    \/ \E t \in OneCall : RefreshUnauthorized(t) /\ UNCHANGED hist
    \/ \E t \in OneCall : Bind(t) /\ UNCHANGED hist
    \/ \E i \in Ids : report_success(i) /\ UNCHANGED hist
    \/ \E i \in Ids : report_failure(i) /\ UNCHANGED hist
    \/ \E i \in Ids : report_quota_exhausted(i) /\ UNCHANGED hist
    \/ \E i \in Ids, d \in BOOLEAN : set_disabled(i, d) /\ UNCHANGED hist
    \/ \E i \in Ids : reset_and_enable(i) /\ UNCHANGED hist
    \/ \E i \in Ids : delete_credential(i) /\ UNCHANGED hist

InitEntries == InitFrom(FileMixed)

SpecEntries == InitEntries /\ [][NextEntries]_vars

\* C40: an entry is disabled exactly if it has a disabled_reason, and an
\* enabled entry has a failure_count below MAX_FAILURES_PER_CREDENTIAL = 3.
C40_EntriesConsistent ==
    \A k \in 1..Len(entries) :
        /\ entries[k].disabled <=> entries[k].disabled_reason # NoReason
        /\ ~entries[k].disabled => entries[k].failure_count < MAX_FAILURES_PER_CREDENTIAL

\* A call has been served by an enabled credential with one failure
\* reported, while another credential is disabled for its quota.
C40_Witness ==
    \E k, j \in 1..Len(entries) :
        /\ ~entries[k].disabled /\ entries[k].failure_count = 1
        /\ entries[j].disabled /\ entries[j].disabled_reason = "QuotaExceeded"
        /\ \E t \in OneCall : calls[t].pc = "done" /\ calls[t].ctx.id = entries[k].id

====
